---- MODULE Spec2Model ----
(***************************************************************************)
(* Model of CordovaHealthCheck (src/cordova_health_check.py): the device   *)
(* readiness poller wait_for_device_fully_ready, the identifier resolver   *)
(* get_active_emulator_serial, run_command, force_adb_reconnection, the    *)
(* retry procedure start_emulator_with_retry, stop_emulator,               *)
(* install_and_run_cordova and main; of the system audit                   *)
(* (src/smartchat_audit.py): run_audit, its checks, the progress spinner   *)
(* and main; of the PATH configurator (src/setup_cordova_path.py); and of  *)
(* the monitoring loop of the emulator diagnostic                          *)
(* (src/emulator_diagnostic.py).                                           *)
(*                                                                         *)
(* Command output is modelled as Python strings are: sequences of          *)
(* characters.  `x in s` is substring search, re.findall is the regular    *)
(* expression scanned left to right, str.strip trims both ends.  None and  *)
(* the empty string are both written <<>>: the code only tests the         *)
(* identifier for truthiness and the resolver never yields an empty match. *)
(*                                                                         *)
(* Spec is the poller as a state machine; LiveSpec adds that a running     *)
(* poller keeps stepping; ListingSpec applies the two functions of an      *)
(* `adb devices` listing to every listing of the model.  MainSpec is one   *)
(* run of main of the health check, DeploySpec a call of                   *)
(* install_and_run_cordova on its own, AuditSpec one run of the audit.     *)
(* InterruptSpec is a run of the audit that a KeyboardInterrupt may end,   *)
(* with the spinner thread of the running check as a second process;       *)
(* GradleSpec applies check_gradle to every version report of the model;   *)
(* ConfigSpec is one run of the configurator on Windows, the registry and  *)
(* the user at the prompt being its environment; DiagSpec is the reader    *)
(* thread and the monitoring loop of the diagnostic.                       *)
(*                                                                         *)
(* In MainSpec the polling session of an attempt is one step (Poll): what  *)
(* the retry procedure sees of it is its return value and the entries it   *)
(* added to self.issues, and Spec is where the session itself is checked.  *)
(* A KeyboardInterrupt can arrive at any position of main's try block.     *)
(* self.warnings and the snapshot directory are read by no claim settled   *)
(* here and are not modelled.                                              *)
(*                                                                         *)
(* The external tools (adb) are the environment: every run_command draws   *)
(* one outcome (completed with exit status and stdout, TimeoutExpired, or  *)
(* another exception) from a small set.  The clock is time.time() in whole *)
(* seconds, read from the moment the poller was last entered (the code     *)
(* only uses differences), and never runs backwards; a command that        *)
(* completes takes no measurable time, one that times out takes its        *)
(* timeout.  Writing to the console is taken to                            *)
(* succeed, and run_command swallows every Exception, so no statement of   *)
(* the poller's try block raises and its except handler (lines 102-104)    *)
(* is never entered.                                                       *)
(***************************************************************************)
EXTENDS Integers, Sequences, FiniteSets, TLC

VARIABLES
    emulator_serial,  \* self.emulator_serial (<<>> is None)
    issues,           \* self.issues
    pc,               \* position of the caller inside the object's methods
    steps_passed,     \* local of wait_for_device_fully_ready
    start_time,       \* local of wait_for_device_fully_ready
    timeout,          \* argument of wait_for_device_fully_ready
    retval,           \* value returned by the last call ("None" while running)
    now,              \* time.time(), counted from the last entry into the poller
    \* history of the running polling session
    iter,             \* probes issued in the current iteration, in order
    sat,              \* steps whose probe succeeded in some iteration
    serial0,          \* emulator_serial when the session began
    sleeps,           \* time.sleep calls made by the session
    failed,           \* some probe of the session timed out or raised
    last,             \* the last command issued and what came back
    \* the health-check flow: main, start_emulator_with_retry,
    \* install_and_run_cordova
    mpc,              \* position in the flow
    emulator_process, \* self.emulator_process ("None" or "Popen")
    running,          \* the process spawned for the emulator is alive
    max_retries,      \* argument of start_emulator_with_retry
    attempt,          \* loop variable of start_emulator_with_retry
    launches,         \* subprocess.Popen calls that spawned an emulator
    log,              \* what the current start attempt has done, in order
    started,          \* value returned by start_emulator_with_retry
    deployed,         \* value returned by install_and_run_cordova
    cmds,             \* commands issued by install_and_run_cordova, in order
    issues0,          \* self.issues when install_and_run_cordova was entered
    reported,         \* generate_report was called
    exitcode,         \* the status the process ends with ("None" until known)
    \* the system audit (src/smartchat_audit.py)
    apc,              \* position in main / run_audit
    results,          \* self.results
    sdk_path,         \* local of run_audit ("None" or the path found)
    environ,          \* os.environ and the file system, as the audit reads them
    calls,            \* check methods called so far, in order
    report_saved,     \* generate_report wrote the file ("None" before it ran)
    audit_exit,       \* argument of sys.exit ("None" while the audit runs)
    spinner,          \* the ProgressSpinner of the check that is running
    \* the PATH configurator (src/setup_cordova_path.py)
    cpc,              \* position in run / __main__
    cenv,             \* os.environ and the file system, as the configurator reads them
    store,            \* the persistent user environment (HKCU\Environment)
    store0,           \* the store when the run began
    android_home,     \* self.android_home (<<>> is None)
    required_paths,   \* self.required_paths
    missing_paths,    \* self.missing_paths
    existing_paths,   \* self.existing_paths
    current_path,     \* what check_paths read as the user PATH
    response,         \* input().strip().lower() at the prompt (<<>> before it)
    added,            \* value returned by add_paths_to_user_path
    run_ret,          \* value returned by run
    config_exit,      \* argument of sys.exit
    \* the emulator diagnostic (src/emulator_diagnostic.py, lines 81-125)
    dpc,              \* position of the main thread
    rpc,              \* position of the reader thread
    q,                \* the queue between them
    enqueued,         \* everything the reader has put, in order
    dequeued,         \* everything the main thread has got, in order
    processed,        \* the lines the main thread has printed, in order
    dnow,             \* time.time() - start_time, in whole seconds
    emulator_found,   \* local of main
    ended_by          \* how the monitoring loop ended ("None" while it runs)

pollerVars == <<pc, steps_passed, start_time, timeout, retval, now, iter, sat,
                serial0, sleeps, failed, last>>

mainVars == <<mpc, emulator_process, running, max_retries, attempt, launches,
              log, started, deployed, cmds, issues0, reported, exitcode>>

auditVars == <<apc, results, sdk_path, environ, calls, report_saved, audit_exit,
               spinner>>

configVars == <<cpc, cenv, store, store0, android_home, required_paths,
                missing_paths, existing_paths, current_path, response, added,
                run_ret, config_exit>>

diagVars == <<dpc, rpc, q, enqueued, dequeued, processed, dnow, emulator_found,
              ended_by>>

vars == <<emulator_serial, issues, pc, steps_passed, start_time, timeout,
          retval, now, iter, sat, serial0, sleeps, failed, last, mainVars,
          auditVars, configVars, diagVars>>

----------------------------------------------------------------------------
(* Bounds of the model *)

MaxDevices == 2      \* devices in one `adb devices` listing
MaxIssues == 2       \* failed commands recorded in self.issues
MaxTimeout == 11     \* largest deadline handed to the poller

(* Program constants *)

SleepInterval == 5   \* time.sleep(5) between iterations
DevicesTimeout == 60 \* run_command default timeout
ShellTimeout == 10   \* timeout of the adb shell probes
BuildTimeout == 120  \* timeout of cordova build and cordova run
total_steps == 5

----------------------------------------------------------------------------
(* Strings *)

TAB == "\t"
NL == "\n"
CR == "\r"
SP == " "

Whitespace == {SP, TAB, NL, CR}
Digits == {"0", "1", "2", "3", "4", "5", "6", "7", "8", "9"}

None == <<>>

S_emulator_ == <<"e","m","u","l","a","t","o","r","-">>
S_device == <<"d","e","v","i","c","e">>
S_offline == <<"o","f","f","l","i","n","e">>
S_unauthorized == <<"u","n","a","u","t","h","o","r","i","z","e","d">>
S_found == <<"f","o","u","n","d">>
S_1 == <<"1">>

Min(S) == CHOOSE x \in S : \A y \in S : x <= y
Max(S) == CHOOSE x \in S : \A y \in S : x >= y

\* s[m..n], empty when the range leaves the string
Slice(s, m, n) == IF m >= 1 /\ n <= Len(s) /\ m <= n THEN SubSeq(s, m, n) ELSE <<>>

\* Python: sub in s
Contains(sub, s) ==
    \E i \in 1..(Len(s) - Len(sub) + 1) : SubSeq(s, i, i + Len(sub) - 1) = sub

\* index of the first character at or after i that is not in cls
RECURSIVE RunEnd(_, _, _)
RunEnd(s, i, cls) ==
    IF i <= Len(s) /\ s[i] \in cls THEN RunEnd(s, i + 1, cls) ELSE i

\* Python: s.strip()
RECURSIVE Strip(_)
Strip(s) ==
    IF s = <<>> THEN s
    ELSE IF s[1] \in Whitespace THEN Strip(Tail(s))
    ELSE IF s[Len(s)] \in Whitespace THEN Strip(SubSeq(s, 1, Len(s) - 1))
    ELSE s

----------------------------------------------------------------------------
(* The environment: what adb answers *)

Emu5554 == <<"e","m","u","l","a","t","o","r","-","5","5","5","4">>
Emu55540 == <<"e","m","u","l","a","t","o","r","-","5","5","5","4","0">>
Phone == <<"R","5","8","M">>

Serials == {Emu5554, Emu55540, Phone}
States == {S_device, S_offline, S_unauthorized}
Entries == [serial : Serials, state : States]

\* the attached devices: at most MaxDevices entries, each serial once
Listings ==
    {d \in UNION {[1..n -> Entries] : n \in 0..MaxDevices} :
        \A i, j \in DOMAIN d : d[i].serial = d[j].serial => i = j}

Header == <<"L","i","s","t",SP,"o","f",SP,"d","e","v","i","c","e","s",SP,
            "a","t","t","a","c","h","e","d",NL>>

RECURSIVE Lines(_)
Lines(d) ==
    IF d = <<>> THEN <<>>
    ELSE Head(d).serial \o <<TAB>> \o Head(d).state \o <<NL>> \o Lines(Tail(d))

\* stdout of `adb devices`
Render(d) == Header \o Lines(d) \o <<NL>>

SvcFound == <<"S","e","r","v","i","c","e",SP,"p","a","c","k","a","g","e",":",SP,
              "f","o","u","n","d",NL>>
SvcNotFound == <<"S","e","r","v","i","c","e",SP,"p","a","c","k","a","g","e",":",SP,
                 "n","o","t",SP,"f","o","u","n","d",NL>>
Boot1 == <<"1",NL>>
Boot1Padded == <<SP,"1",CR,NL>>
Boot0 == <<"0",NL>>
Boot10 == <<"1","0",NL>>
PmPath == <<"p","a","c","k","a","g","e",":","/","a","p","k",NL>>

Completed(rc, out, d) ==
    [kind |-> "done", returncode |-> rc, stdout |-> out, devs |-> d, dur |-> 0]
TimedOut(t) ==
    [kind |-> "timeout", returncode |-> 0, stdout |-> <<>>, devs |-> <<>>, dur |-> t]
Raised ==
    [kind |-> "error", returncode |-> 0, stdout |-> <<>>, devs |-> <<>>, dur |-> 0]

\* a command may fail only while self.issues has room in the model
Failures(t) == IF Len(issues) < MaxIssues THEN {TimedOut(t), Raised} ELSE {}

\* `adb devices` ran: the listing, or exit status 1 with nothing on stdout
CompletedListings ==
    {Completed(0, Render(d), d) : d \in Listings} \cup {Completed(1, <<>>, <<>>)}

ListingOutcomes == CompletedListings \cup Failures(DevicesTimeout)

BootOutcomes ==
    {Completed(0, b, <<>>) : b \in {Boot1, Boot1Padded, Boot0, Boot10, <<NL>>}}
    \cup {Completed(1, <<>>, <<>>)}
    \cup Failures(ShellTimeout)

PmOutcomes ==
    {Completed(0, PmPath, <<>>)}
    \cup {Completed(1, <<>>, <<>>)}
    \cup Failures(ShellTimeout)

ServiceOutcomes ==
    {Completed(0, b, <<>>) : b \in {SvcFound, SvcNotFound, <<>>}}
    \cup {Completed(1, <<>>, <<>>)}
    \cup Failures(ShellTimeout)

----------------------------------------------------------------------------
(* The code *)

NoResult == [ran |-> FALSE, returncode |-> 0, stdout |-> <<>>]

\* run_command: the CompletedProcess, or None after TimeoutExpired / Exception
run_command_NoCatch(o) ==
    [ran |-> TRUE, returncode |-> o.returncode, stdout |-> o.stdout]
run_command(o) ==
    IF o.kind = "done"
    THEN [ran |-> TRUE, returncode |-> o.returncode, stdout |-> o.stdout]
    ELSE NoResult

\* run_command: what it appends to self.issues
run_command_issues(o) ==
    IF o.kind = "done" THEN issues ELSE Append(issues, o.kind)

\* re.match of (emulator-\d+)\s+device at position i: the index after the
\* group, or 0 when there is no match at i
MatchAt(s, i) ==
    LET a == i + Len(S_emulator_)
        b == RunEnd(s, a, Digits)
        c == RunEnd(s, b, Whitespace)
    IN  IF /\ Slice(s, i, a - 1) = S_emulator_
           /\ b > a
           /\ c > b
           /\ Slice(s, c, c + Len(S_device) - 1) = S_device
        THEN b ELSE 0

\* re.findall(r'(emulator-\d+)\s+device', s): matches[0], or <<>> if no match
FirstMatch_Last(s) ==
    LET I == {i \in 1..Len(s) : MatchAt(s, i) # 0}
    IN  IF I = {} THEN <<>> ELSE SubSeq(s, Max(I), MatchAt(s, Max(I)) - 1)
FirstMatch(s) ==
    LET I == {i \in 1..Len(s) : MatchAt(s, i) # 0}
    IN  IF I = {} THEN <<>> ELSE SubSeq(s, Min(I), MatchAt(s, Min(I)) - 1)

get_active_emulator_serial(result) ==
    IF result.ran /\ result.stdout # <<>> THEN FirstMatch(result.stdout) ELSE None

\* line 57: while time.time() - start_time < timeout
WithinDeadline_Early(n, s, t) == n - s < t - SleepInterval
WithinDeadline_Inclusive(n, s, t) == n - s <= t
WithinDeadline(n, s, t) == n - s < t

\* line 60: if not self.emulator_serial
NeedsResolve_Always(serial) == TRUE
NeedsResolve(serial) == serial = None

\* line 71
Step2Ok(result, serial) ==
    /\ result.ran
    /\ Contains(serial, result.stdout)
    /\ ~Contains(S_offline, result.stdout)

\* line 78
Step3Ok(result) == result.ran /\ Contains(S_1, Strip(result.stdout))

\* line 85
Step4Ok(result) == result.ran /\ result.returncode = 0

\* line 92
Step5Ok(result) == result.ran /\ Contains(S_found, result.stdout)

\* steps_passed = max(steps_passed, k)
Reached_Assign(steps, k) == k
Reached(steps, k) == IF steps >= k THEN steps ELSE k

\* lines 66 and 98: what time.sleep(5) does to the clock
Slept_NoWait(n) == n
Slept(n) == n + SleepInterval

\* where the iteration goes after a step's probe: on to the next step when
\* the step passed, to time.sleep(5) when it did not
AfterStep_FallThrough(ok, next) == next
AfterStep(ok, next) == IF ok THEN next ELSE "sleep"

----------------------------------------------------------------------------
(* The state machine *)

Timeouts == {0, SleepInterval, MaxTimeout}

NoCommand == [cmd |-> "none", out |-> Completed(0, <<>>, <<>>)]

Idle == pc \in {"idle", "done"}
InSession == pc \in {"loop", "step1", "step2", "step3", "step4", "step5", "sleep"}

\* the health-check flow standing at position p with nothing done yet, the
\* issue list being iss
MainFresh(p, iss) ==
    /\ mpc = p
    /\ emulator_process = "None"
    /\ running = FALSE
    /\ max_retries = 0
    /\ attempt = 0
    /\ launches = 0
    /\ log = <<>>
    /\ started = "None"
    /\ deployed = "None"
    /\ cmds = <<>>
    /\ issues0 = iss
    /\ reported = FALSE
    /\ exitcode = "None"

\* lines 62-67: a spinner that was not started, or the one of a check that
\* has returned
NoSpinner == [running |-> FALSE, thread |-> "None", idx |-> 0]

\* the audit before its main() is entered, in environment e
AuditFresh(p, e) ==
    /\ apc = p
    /\ results = <<>>
    /\ sdk_path = "None"
    /\ environ = e
    /\ calls = <<>>
    /\ report_saved = "None"
    /\ audit_exit = "None"
    /\ spinner = NoSpinner

\* an environment with nothing installed
BareEnviron ==
    [ANDROID_HOME |-> "unset", common |-> FALSE, dirs |-> {}, PATH |-> {}]

\* a user environment store with nothing in it
EmptyStore == [Path |-> <<>>, ANDROID_HOME |-> <<>>]

\* line 18: os.environ.get('ANDROID_HOME') or os.environ.get('ANDROID_SDK_ROOT');
\* a variable that is not set and one set to '' both read as <<>>
EnvOr(a, b) == IF a # <<>> THEN a ELSE b

\* lines 17-21: the configurator at position p, in environment e, with the
\* store st
ConfigFresh(p, e, st) ==
    /\ cpc = p
    /\ cenv = e
    /\ store = st
    /\ store0 = st
    /\ android_home = EnvOr(e.ANDROID_HOME, e.ANDROID_SDK_ROOT)
    /\ required_paths = <<>>
    /\ missing_paths = <<>>
    /\ existing_paths = <<>>
    /\ current_path = <<>>
    /\ response = <<>>
    /\ added = "None"
    /\ run_ret = "None"
    /\ config_exit = "None"

\* an environment of the configurator with no SDK in it
BareConfigEnv ==
    [ANDROID_HOME |-> <<>>, ANDROID_SDK_ROOT |-> <<>>, sdk |-> FALSE, dirs |-> {}]

\* the diagnostic at positions p (main thread) and r (reader thread)
DiagFresh(p, r) ==
    /\ dpc = p
    /\ rpc = r
    /\ q = <<>>
    /\ enqueued = <<>>
    /\ dequeued = <<>>
    /\ processed = <<>>
    /\ dnow = 0
    /\ emulator_found = FALSE
    /\ ended_by = "None"

\* the configurator and the diagnostic are other programs and are not running
ToolsIdle == ConfigFresh("idle", BareConfigEnv, EmptyStore) /\ DiagFresh("idle", "idle")

\* the health-check flow before main() is entered; the audit is another
\* program and is not running
MainIdle == MainFresh("idle", <<>>) /\ AuditFresh("idle", BareEnviron) /\ ToolsIdle

\* no polling session has been entered
PollerIdle ==
    /\ pc = "idle"
    /\ steps_passed = 0
    /\ start_time = 0
    /\ timeout = 0
    /\ retval = "None"
    /\ now = 0
    /\ iter = <<>>
    /\ sat = {}
    /\ serial0 = None
    /\ sleeps = 0
    /\ failed = FALSE
    /\ last = NoCommand

Init ==
    /\ MainIdle
    /\ emulator_serial = None
    /\ issues = <<>>
    /\ PollerIdle

\* lines 49-55: wait_for_device_fully_ready(timeout=t) is entered
CallWait(t) ==
    /\ Idle
    /\ pc' = "loop"
    /\ timeout' = t
    /\ now' = 0
    /\ start_time' = now'
    /\ steps_passed' = 0
    /\ retval' = "None"
    /\ iter' = <<>>
    /\ sat' = {}
    /\ serial0' = emulator_serial
    /\ sleeps' = 0
    /\ failed' = FALSE
    /\ last' = NoCommand
    /\ UNCHANGED <<mainVars, auditVars, configVars, diagVars, emulator_serial, issues>>

\* line 57, and lines 106-107 when the deadline has elapsed
LoopTest ==
    /\ pc = "loop"
    /\ IF WithinDeadline(now, start_time, timeout)
       THEN /\ pc' = IF NeedsResolve(emulator_serial) THEN "step1" ELSE "step2"
            /\ iter' = <<>>
            /\ retval' = retval
       ELSE /\ pc' = "done"
            /\ retval' = "False"
            /\ iter' = iter
    /\ UNCHANGED <<mainVars, auditVars, configVars, diagVars, emulator_serial, issues, steps_passed, start_time, timeout, now,
                   sat, serial0, sleeps, failed, last>>

\* what the history keeps of a command: all of it for the shell probes, the
\* way it ended for `adb devices`
Noted(cmd, o) ==
    IF cmd \in {"resolve", "devices"}
    THEN [cmd |-> cmd, out |-> [o EXCEPT !.stdout = <<>>, !.devs = <<>>]]
    ELSE [cmd |-> cmd, out |-> o]

\* what every probe does to the clock, self.issues and the history
Probe(step, cmd, o, ok) ==
    /\ now' = now + o.dur
    /\ issues' = run_command_issues(o)
    /\ failed' = (failed \/ o.kind # "done")
    /\ last' = Noted(cmd, o)
    /\ iter' = Append(iter, [step |-> step, ok |-> ok])
    /\ sat' = IF ok THEN sat \cup {step} ELSE sat

\* lines 60-67
Step1 ==
    /\ pc = "step1"
    /\ \E o \in ListingOutcomes :
        LET serial == get_active_emulator_serial(run_command(o))
            ok == serial # None
        IN  /\ emulator_serial' = serial
            /\ steps_passed' = IF ok THEN Reached(steps_passed, 1) ELSE steps_passed
            /\ pc' = AfterStep(ok, "step2")
            /\ Probe(1, "resolve", o, ok)
    /\ UNCHANGED <<mainVars, auditVars, configVars, diagVars, start_time, timeout, retval, serial0, sleeps>>

\* lines 70-74
Step2 ==
    /\ pc = "step2"
    /\ \E o \in ListingOutcomes :
        LET ok == Step2Ok(run_command(o), emulator_serial)
        IN  /\ steps_passed' = IF ok THEN Reached(steps_passed, 2) ELSE steps_passed
            /\ pc' = AfterStep(ok, "step3")
            /\ Probe(2, "devices", o, ok)
    /\ UNCHANGED <<mainVars, auditVars, configVars, diagVars, emulator_serial, start_time, timeout, retval, serial0, sleeps>>

\* lines 77-81
Step3 ==
    /\ pc = "step3"
    /\ \E o \in BootOutcomes :
        LET ok == Step3Ok(run_command(o))
        IN  /\ steps_passed' = IF ok THEN Reached(steps_passed, 3) ELSE steps_passed
            /\ pc' = AfterStep(ok, "step4")
            /\ Probe(3, "boot", o, ok)
    /\ UNCHANGED <<mainVars, auditVars, configVars, diagVars, emulator_serial, start_time, timeout, retval, serial0, sleeps>>

\* lines 84-88
Step4 ==
    /\ pc = "step4"
    /\ \E o \in PmOutcomes :
        LET ok == Step4Ok(run_command(o))
        IN  /\ steps_passed' = IF ok THEN Reached(steps_passed, 4) ELSE steps_passed
            /\ pc' = AfterStep(ok, "step5")
            /\ Probe(4, "pm", o, ok)
    /\ UNCHANGED <<mainVars, auditVars, configVars, diagVars, emulator_serial, start_time, timeout, retval, serial0, sleeps>>

\* lines 91-96
Step5 ==
    /\ pc = "step5"
    /\ \E o \in ServiceOutcomes :
        LET ok == Step5Ok(run_command(o))
        IN  /\ steps_passed' = IF ok THEN Reached(steps_passed, 5) ELSE steps_passed
            /\ pc' = AfterStep(ok, "done")
            /\ retval' = IF ok THEN "True" ELSE retval
            /\ Probe(5, "service", o, ok)
    /\ UNCHANGED <<mainVars, auditVars, configVars, diagVars, emulator_serial, start_time, timeout, serial0, sleeps>>

\* lines 66-67 and 98-100: time.sleep(5), then back to the loop test
Sleep ==
    /\ pc = "sleep"
    /\ now' = Slept(now)
    /\ sleeps' = sleeps + 1
    /\ pc' = "loop"
    /\ UNCHANGED <<mainVars, auditVars, configVars, diagVars, emulator_serial, issues, steps_passed, start_time, timeout, retval,
                   iter, sat, serial0, failed, last>>

Next ==
    \/ \E t \in Timeouts : CallWait(t)
    \/ LoopTest
    \/ Step1
    \/ Step2
    \/ Step3
    \/ Step4
    \/ Step5
    \/ Sleep

Spec == Init /\ [][Next]_vars

\* the statements of the poller run one after another on the calling
\* thread: once entered, the poller keeps taking its next step
PollerStep == LoopTest \/ Step1 \/ Step2 \/ Step3 \/ Step4 \/ Step5 \/ Sleep

LiveSpec == Spec /\ WF_vars(PollerStep)

----------------------------------------------------------------------------
(* The two functions of an `adb devices` listing, applied to every listing:
   get_active_emulator_serial, and the test of step 2 *)

\* an identifier the resolver can have produced
ResolvedSerials == {id \in Serials : FirstMatch(id \o <<TAB>> \o S_device) = id}

ListingInit ==
    /\ MainIdle
    /\ pc = "listed"
    /\ emulator_serial \in ResolvedSerials \cup {None}
    /\ \E o \in CompletedListings \cup {TimedOut(DevicesTimeout), Raised} :
          last = [cmd |-> "devices", out |-> o]
    /\ issues = <<>>
    /\ steps_passed = 0
    /\ start_time = 0
    /\ timeout = 0
    /\ retval = "None"
    /\ now = 0
    /\ iter = <<>>
    /\ sat = {}
    /\ serial0 = emulator_serial
    /\ sleeps = 0
    /\ failed = FALSE

\* lines 39-47: get_active_emulator_serial on the listing at hand
Resolve ==
    /\ pc = "listed"
    /\ emulator_serial' = get_active_emulator_serial(run_command(last.out))
    /\ issues' = run_command_issues(last.out)
    /\ failed' = (last.out.kind # "done")
    /\ pc' = "resolved"
    /\ UNCHANGED <<mainVars, auditVars, configVars, diagVars, steps_passed, start_time, timeout, retval, now, iter, sat,
                   serial0, sleeps, last>>

\* lines 70-71: the test of step 2 on the listing at hand, for an identifier
\* resolved earlier
CheckOnline ==
    /\ pc = "listed"
    /\ emulator_serial # None
    /\ LET ok == Step2Ok(run_command(last.out), emulator_serial)
       IN  /\ iter' = <<[step |-> 2, ok |-> ok]>>
           /\ sat' = IF ok THEN {2} ELSE {}
           /\ steps_passed' = IF ok THEN Reached(steps_passed, 2) ELSE steps_passed
    /\ issues' = run_command_issues(last.out)
    /\ failed' = (last.out.kind # "done")
    /\ pc' = "checked"
    /\ UNCHANGED <<mainVars, auditVars, configVars, diagVars, emulator_serial, start_time, timeout, retval, now, serial0,
                   sleeps, last>>

ListingNext == Resolve \/ CheckOnline

ListingSpec == ListingInit /\ [][ListingNext]_vars

TypeOK ==
    /\ steps_passed \in 0..total_steps
    /\ pc \in {"idle", "loop", "step1", "step2", "step3", "step4", "step5", "sleep", "done"}
    /\ emulator_serial \in ResolvedSerials \cup {None}
    /\ retval \in {"None", "True", "False"}
    /\ Len(issues) <= MaxIssues

----------------------------------------------------------------------------
(* Properties of the readiness poller *)

Elapsed == now - start_time
LastProbe == iter[Len(iter)]
PassedInIter == {iter[i].step : i \in {j \in 1..Len(iter) : iter[j].ok}}
HighestSatisfied == Max(sat \cup {0})

\* the probes of the running iteration are consecutive steps, beginning with
\* step 1 or (identifier already known) step 2, each issued only after the
\* one before it passed
InOrder ==
    \A i \in 1..Len(iter) :
        /\ i = 1 => iter[i].step \in {1, 2}
        /\ i > 1 => iter[i].step = iter[i - 1].step + 1 /\ iter[i - 1].ok

\* C1: the poller returns success only in an iteration in which the
\* identifier is resolved and the probes of steps 2, 3, 4 and 5 all passed, in
\* order; a step is probed only after the step before it passed in the same
\* iteration.
C1_SuccessOnlyAfterAllSteps ==
    /\ InOrder
    /\ (iter # <<>> /\ iter[1].step = 2) => emulator_serial # None
    /\ retval = "True" =>
        /\ emulator_serial # None
        /\ {2, 3, 4, 5} \subseteq PassedInIter
        /\ LastProbe.step = 5

C1_Witness ==
    /\ retval = "True"
    /\ Len(iter) = 5
    /\ sleeps > 0

\* C2 as stated: the counter never decreases within a session, stays in 0..5,
\* and has a value N >= 2 only if step N-1's probe passed in this session.
C2_Original ==
    /\ [][InSession => steps_passed' >= steps_passed]_vars
    /\ [](steps_passed \in 0..total_steps)
    /\ [](steps_passed >= 2 => (steps_passed - 1) \in sat)

\* C2 (amended): the counter never decreases within a session, stays in 0..5,
\* and has a value N >= 2 only if step N-1's probe passed in this session, or
\* N = 2 and the identifier was already set when the session began, so that
\* step 1 was skipped.
C2_CounterMonotone ==
    /\ [][InSession => steps_passed' >= steps_passed]_vars
    /\ [](steps_passed \in 0..total_steps)
    /\ [](steps_passed >= 2 =>
            \/ (steps_passed - 1) \in sat
            \/ steps_passed = 2 /\ serial0 # None)

C2_Witness ==
    /\ pc = "sleep"
    /\ steps_passed = 3
    /\ LastProbe.step = 2
    /\ ~LastProbe.ok
    /\ sleeps > 0

\* C3: a session in which step 5 never passes goes on until the deadline
\* has elapsed and then returns failure: every session returns, it returns
\* failure only once the deadline has elapsed and step 5 never passed, and
\* the progress it then holds is the highest step whose probe passed in any
\* iteration of the session.
C3_FailureAtDeadline ==
    /\ []((pc = "done" /\ retval = "False") =>
            /\ Elapsed >= timeout
            /\ 5 \notin sat
            /\ steps_passed = HighestSatisfied)
    /\ (InSession ~> pc = "done")

\* resolved once, then reported offline in every later listing
C3_Witness ==
    /\ pc = "done"
    /\ retval = "False"
    /\ sat = {1}
    /\ sleeps >= 2
    /\ last.cmd = "devices"
    /\ last.out.kind = "done"

\* C4: with a deadline of 0 the poller returns failure at once: no command is
\* issued, no sleep is made, the progress is 0 and the identifier is the one
\* the object held before the call.
C4_ZeroDeadline ==
    (timeout = 0 /\ pc # "idle") =>
        /\ pc \in {"loop", "done"}
        /\ pc = "done" => retval = "False"
        /\ last.cmd = "none"
        /\ sleeps = 0
        /\ now = start_time
        /\ steps_passed = 0
        /\ emulator_serial = serial0
        /\ iter = <<>>

C4_Witness ==
    /\ pc = "done"
    /\ timeout = 0
    /\ retval = "False"
    /\ serial0 # None

\* C5: a probe that times out or raises only fails its step in that
\* iteration: the poller goes on to the sleep with its progress, identifier
\* and pending return untouched, and an iteration of the same session in
\* which every probe passes still returns success.
C5_ProbeFailureRecoverable ==
    /\ [][(InSession /\ last' # last /\ last'.out.kind # "done") =>
            /\ pc' = "sleep"
            /\ retval' = "None"
            /\ steps_passed' = steps_passed
            /\ emulator_serial' = emulator_serial]_vars
    /\ []((failed /\ iter # <<>> /\ LastProbe.step = 5 /\ LastProbe.ok) =>
            pc = "done" /\ retval = "True")

C5_Witness ==
    /\ retval = "True"
    /\ failed
    /\ sleeps > 0

\* C6: within a session, once the identifier is set (resolved by step 1, or
\* held when the session began) no step changes it and the resolver is not
\* run again: the poller never stands at step 1 with an identifier, and no
\* resolver call follows.
C6_IdentifierCached ==
    [][(InSession /\ emulator_serial # None) =>
        /\ emulator_serial' = emulator_serial
        /\ pc # "step1"
        /\ pc' # "step1"
        /\ (last' # last => last'.cmd # "resolve")]_vars

\* resolved in this session; a later listing no longer satisfied step 2
C6_Witness ==
    /\ pc = "sleep"
    /\ serial0 = None
    /\ emulator_serial # None
    /\ sleeps > 0
    /\ last.cmd = "devices"
    /\ last.out.kind = "done"
    /\ ~LastProbe.ok

\* an identifier of the form emulator-<digits>
IsEmulatorName(id) ==
    /\ Len(id) > Len(S_emulator_)
    /\ SubSeq(id, 1, Len(S_emulator_)) = S_emulator_
    /\ \A i \in (Len(S_emulator_) + 1)..Len(id) : id[i] \in Digits

\* the first listed emulator whose status is device, or None
FirstOnlineEmulator(d) ==
    LET I == {i \in DOMAIN d : IsEmulatorName(d[i].serial) /\ d[i].state = S_device}
    IN  IF I = {} THEN None ELSE d[Min(I)].serial

\* C7: the resolver returns the first listed identifier of the form
\* emulator-<digits> whose status is device, and None when the listing has no
\* such entry or the listing command failed.
C7_ResolverFirstOnlineEmulator ==
    pc = "resolved" =>
        emulator_serial = IF last.out.kind = "done"
                          THEN FirstOnlineEmulator(last.out.devs)
                          ELSE None

C7_Witness ==
    /\ pc = "resolved"
    /\ emulator_serial = Emu5554
    /\ Len(last.out.devs) = 2
    /\ last.out.devs[2].serial = Emu5554
    /\ last.out.devs[1].state # S_device

\* the listing shows the identifier itself, with a status other than offline
AttachedAndOnline(d, serial) ==
    \E i \in DOMAIN d : d[i].serial = serial /\ d[i].state # S_offline

\* C8: step 2 passes exactly when the listing shows the resolved identifier
\* itself with a status other than offline, whatever the other listed
\* devices are.
C8_Step2Exact ==
    pc = "checked" =>
        (LastProbe.ok <=>
            last.out.kind = "done" /\ AttachedAndOnline(last.out.devs, emulator_serial))

\* C9: step 3 passes exactly when the boot-completion query completed and
\* its trimmed output is 1.
C9_Step3Exact ==
    last.cmd = "boot" =>
        (LastProbe.ok <=> last.out.kind = "done" /\ Strip(last.out.stdout) = S_1)

\* C10: step 5 passes, and the poller returns success, only when the
\* service check completed and reports the service as found.
C10_Step5OnlyWhenFound ==
    (last.cmd = "service" /\ (LastProbe.ok \/ retval = "True")) =>
        last.out.kind = "done" /\ last.out.stdout = SvcFound

----------------------------------------------------------------------------
(* The health-check flow: main, start_emulator_with_retry, stop_emulator,  *)
(* install_and_run_cordova                                                 *)

MaxRetries == 2      \* largest max_retries passed to start_emulator_with_retry

\* entries of self.issues written by run_command
EnvFailures(iss) == Cardinality({i \in DOMAIN iss : iss[i] \in {"timeout", "error"}})

\* a command may fail only while the model has room for its entry
FailuresAt(iss, t) ==
    IF EnvFailures(iss) < MaxIssues THEN {TimedOut(t), Raised} ELSE {}

\* a command whose output is not read: exit status 0 or 1, or no result
ShellOutcomes(iss, t) ==
    {Completed(0, <<>>, <<>>), Completed(1, <<>>, <<>>)} \cup FailuresAt(iss, t)

\* run_command: self.issues after a command issued when it was iss
Recorded(iss, o) == IF o.kind = "done" THEN iss ELSE Append(iss, o.kind)

\* self.issues.append(msg) on a failure the code itself detects
issues_append_Silent(iss, msg) == iss
issues_append(iss, msg) == Append(iss, msg)

\* line 163: for attempt in range(max_retries)
MoreAttempts_Inclusive(a, m) == a <= m
MoreAttempts(a, m) == a < m

\* lines 217-226: self.emulator_process after stop_emulator
stop_emulator_handle_Keep(proc) == proc
stop_emulator_handle(proc) == "None"

\* lines 217-225: terminate(), wait(10), kill() on the handle, if there is one
Terminated(proc, alive) == IF proc # "None" THEN FALSE ELSE alive

\* lines 215-230: stop_emulator, its two taskkill commands coming back as o1, o2
StopEmulator(o1, o2) ==
    /\ emulator_process' = stop_emulator_handle(emulator_process)
    /\ running' = Terminated(emulator_process, running)
    /\ issues' = Recorded(Recorded(issues, o1), o2)

\* lines 308-327 and 358-361: perform_health_check; on a failed check main
\* reports and calls sys.exit(1)
PerformHealthCheck ==
    /\ mpc = "main"
    /\ \/ /\ mpc' = "start_emulator"
          /\ UNCHANGED <<issues, reported, exitcode>>
       \/ \E o \in ShellOutcomes(issues, DevicesTimeout) \ {Completed(0, <<>>, <<>>)} :
            /\ issues' = issues_append(Recorded(issues, o), "check failed")
            /\ reported' = TRUE
            /\ exitcode' = "1"
            /\ mpc' = "finally"
    /\ UNCHANGED <<emulator_serial, pollerVars, auditVars, configVars, diagVars, emulator_process, running,
                   max_retries, attempt, launches, log, started, deployed, cmds,
                   issues0>>

\* lines 157-163: start_emulator_with_retry(max_retries=m) is entered
BeginStart(m) ==
    /\ mpc = "start_emulator"
    /\ max_retries' = m
    /\ attempt' = 0
    /\ mpc' = "attempt"
    /\ UNCHANGED <<emulator_serial, issues, pollerVars, auditVars, configVars, diagVars, emulator_process, running,
                   launches, log, started, deployed, cmds, issues0, reported,
                   exitcode>>

\* lines 163-172: the next attempt begins by killing what is left, or
\* lines 212-213: the attempts are used up
NextAttempt ==
    /\ mpc = "attempt"
    /\ IF MoreAttempts(attempt, max_retries)
       THEN \E o1 \in ShellOutcomes(issues, DevicesTimeout) :
            \E o2 \in ShellOutcomes(Recorded(issues, o1), DevicesTimeout) :
              /\ issues' = Recorded(Recorded(issues, o1), o2)
              /\ emulator_serial' = None
              /\ log' = <<"taskkill", "sleep">>
              /\ mpc' = "launch"
              /\ UNCHANGED started
       ELSE /\ started' = "False"
            /\ mpc' = "start_done"
            /\ UNCHANGED <<issues, emulator_serial, log>>
    /\ UNCHANGED <<pollerVars, auditVars, configVars, diagVars, emulator_process, running, max_retries, attempt,
                   launches, deployed, cmds, issues0, reported, exitcode>>

\* lines 175-186: subprocess.Popen spawns the emulator, or raises and the
\* handler of lines 208-211 ends the attempt
Launch ==
    /\ mpc = "launch"
    /\ \/ /\ emulator_process' = "Popen"
          /\ running' = TRUE
          /\ launches' = launches + 1
          /\ log' = Append(log, "launch")
          /\ mpc' = "settle"
          /\ UNCHANGED <<issues, attempt>>
       \/ \E o1 \in ShellOutcomes(issues, DevicesTimeout) :
          \E o2 \in ShellOutcomes(Recorded(issues, o1), DevicesTimeout) :
            /\ StopEmulator(o1, o2)
            /\ log' = Append(log, "stop_emulator")
            /\ attempt' = attempt + 1
            /\ mpc' = "attempt"
            /\ UNCHANGED launches
    /\ UNCHANGED <<emulator_serial, pollerVars, auditVars, configVars, diagVars, max_retries, started, deployed,
                   cmds, issues0, reported, exitcode>>

\* lines 189-190: time.sleep(45)
Settle ==
    /\ mpc = "settle"
    /\ log' = Append(log, "settle")
    /\ mpc' = "reconnect"
    /\ UNCHANGED <<emulator_serial, issues, pollerVars, auditVars, configVars, diagVars, emulator_process, running,
                   max_retries, attempt, launches, started, deployed, cmds,
                   issues0, reported, exitcode>>

\* lines 129 and 193: the poller is entered if the listing showed an
\* emulator, otherwise the attempt has failed
AfterReconnect_Always(serial) == "poll"
AfterReconnect(serial) == IF serial # None THEN "poll" ELSE "failed"

\* lines 193 and 109-129: force_adb_reconnection
Reconnect ==
    /\ mpc = "reconnect"
    /\ \E o1 \in ShellOutcomes(issues, DevicesTimeout) :
       \E o2 \in ShellOutcomes(Recorded(issues, o1), DevicesTimeout) :
       \E o3 \in ShellOutcomes(Recorded(Recorded(issues, o1), o2), DevicesTimeout) :
       LET iss3 == Recorded(Recorded(Recorded(issues, o1), o2), o3)
       IN  \E o4 \in CompletedListings \cup FailuresAt(iss3, DevicesTimeout) :
             /\ issues' = Recorded(iss3, o4)
             /\ emulator_serial' = get_active_emulator_serial(run_command(o4))
    /\ log' = log \o <<"adb kill-server", "adb start-server">>
    /\ mpc' = AfterReconnect(emulator_serial')
    /\ UNCHANGED <<pollerVars, auditVars, configVars, diagVars, emulator_process, running, max_retries, attempt,
                   launches, started, deployed, cmds, issues0, reported, exitcode>>

\* what the commands of one polling session can add to self.issues
PollIssues(iss) ==
    {iss} \cup {Append(iss, k) : k \in {o.kind : o \in FailuresAt(iss, ShellTimeout)}}

\* lines 197-201: wait_for_device_fully_ready(timeout=180), entered with an
\* identifier, returns; the session itself is Spec
Poll ==
    /\ mpc = "poll"
    /\ \E r \in {"True", "False"} :
         /\ retval' = r
         /\ started' = IF r = "True" THEN "True" ELSE started
         /\ mpc' = IF r = "True" THEN "start_done" ELSE "failed"
    /\ issues' \in PollIssues(issues)
    /\ log' = Append(log, "poll")
    /\ UNCHANGED <<emulator_serial, auditVars, configVars, diagVars, pc, steps_passed, start_time,
                   timeout, now,
                   iter, sat, serial0, sleeps, failed, last, emulator_process,
                   running, max_retries, attempt, launches, deployed, cmds,
                   issues0, reported, exitcode>>

\* lines 204-206: the attempt failed
AttemptFailed ==
    /\ mpc = "failed"
    /\ \E o1 \in ShellOutcomes(issues, DevicesTimeout) :
       \E o2 \in ShellOutcomes(Recorded(issues, o1), DevicesTimeout) :
         StopEmulator(o1, o2)
    /\ log' = Append(log, "stop_emulator")
    /\ attempt' = attempt + 1
    /\ mpc' = "attempt"
    /\ UNCHANGED <<emulator_serial, pollerVars, auditVars, configVars, diagVars, max_retries, launches, started,
                   deployed, cmds, issues0, reported, exitcode>>

\* main, lines 366-368 and 382-384: start_emulator_with_retry has returned
AfterStart ==
    /\ mpc = "start_done"
    /\ IF started = "True"
       THEN /\ mpc' = "deploy"
            /\ issues0' = issues
            /\ UNCHANGED <<reported, exitcode>>
       ELSE /\ reported' = TRUE
            /\ exitcode' = "0"
            /\ mpc' = "finally"
            /\ UNCHANGED issues0
    /\ UNCHANGED <<emulator_serial, issues, pollerVars, auditVars, configVars, diagVars, emulator_process, running,
                   max_retries, attempt, launches, log, started, deployed, cmds>>

\* what install_and_run_cordova notes of a command it issued
Issued(cmd, o) == [cmd |-> cmd, kind |-> o.kind, returncode |-> o.returncode]

\* the variables install_and_run_cordova leaves alone
startVars == <<emulator_process, running, max_retries, attempt, launches, log,
               started, issues0, reported, exitcode>>

\* lines 234-238: the identifier is resolved if it is not known yet
DeployResolve ==
    /\ mpc = "deploy"
    /\ IF emulator_serial # None
       THEN /\ mpc' = "build"
            /\ UNCHANGED <<emulator_serial, issues, deployed>>
       ELSE \E o \in CompletedListings \cup FailuresAt(issues, DevicesTimeout) :
            LET serial == get_active_emulator_serial(run_command(o))
            IN  /\ emulator_serial' = serial
                /\ issues' = IF serial = None
                             THEN issues_append(Recorded(issues, o), "Could not detect emulator serial")
                             ELSE Recorded(issues, o)
                /\ deployed' = IF serial = None THEN "False" ELSE deployed
                /\ mpc' = IF serial = None THEN "deploy_done" ELSE "build"
    /\ UNCHANGED <<pollerVars, auditVars, configVars, diagVars, startVars, cmds>>

\* line 245: if build_result and build_result.returncode != 0
BuildFailed(result) == result.ran /\ result.returncode # 0

\* lines 244-250: cordova build android
Build ==
    /\ mpc = "build"
    /\ \E o \in ShellOutcomes(issues, BuildTimeout) :
         /\ cmds' = Append(cmds, Issued("build", o))
         /\ IF BuildFailed(run_command(o))
            THEN /\ issues' = issues_append(Recorded(issues, o), "Cordova build failed")
                 /\ deployed' = "False"
                 /\ mpc' = "deploy_done"
            ELSE /\ issues' = Recorded(issues, o)
                 /\ mpc' = "run"
                 /\ UNCHANGED deployed
    /\ UNCHANGED <<emulator_serial, pollerVars, auditVars, configVars, diagVars, startVars>>

\* line 256: if install_result and install_result.returncode == 0
Succeeded(result) == result.ran /\ result.returncode = 0

\* lines 254-258: cordova run android --nobuild --target=<identifier>
Run ==
    /\ mpc = "run"
    /\ \E o \in ShellOutcomes(issues, BuildTimeout) :
         /\ cmds' = Append(cmds, Issued("run", o))
         /\ issues' = Recorded(issues, o)
         /\ IF Succeeded(run_command(o))
            THEN /\ deployed' = "True"
                 /\ mpc' = "deploy_done"
            ELSE /\ mpc' = "fallback"
                 /\ UNCHANGED deployed
    /\ UNCHANGED <<emulator_serial, pollerVars, auditVars, configVars, diagVars, startVars>>

\* lines 280-292: the first of the three possible paths that exists (0: None)
ApkPaths == 1..3
find_apk_file(exist) ==
    IF exist = {} THEN 0 ELSE CHOOSE i \in exist : \A j \in exist : i <= j

\* lines 259-266 and 277-278: the built package is installed with adb
Fallback ==
    /\ mpc = "fallback"
    /\ \E exist \in SUBSET ApkPaths :
         IF find_apk_file(exist) # 0
         THEN \E o \in ShellOutcomes(issues, DevicesTimeout) :
                /\ cmds' = Append(cmds, Issued("install", o))
                /\ IF Succeeded(run_command(o))
                   THEN /\ issues' = Recorded(issues, o)
                        /\ mpc' = "start_app"
                        /\ UNCHANGED deployed
                   ELSE /\ issues' = issues_append(Recorded(issues, o), "Failed to install and launch app")
                        /\ deployed' = "False"
                        /\ mpc' = "deploy_done"
         ELSE /\ issues' = issues_append(issues, "Failed to install and launch app")
              /\ deployed' = "False"
              /\ mpc' = "deploy_done"
              /\ UNCHANGED cmds
    /\ UNCHANGED <<emulator_serial, pollerVars, auditVars, configVars, diagVars, startVars>>

\* lines 294-306: the widget id of config.xml, or the fallback name
Configs == {"unreadable", "no widget id", "widget id"}
get_package_name(cfg) == IF cfg = "widget id" THEN "id" ELSE "com.example.hello"

\* lines 270-275: adb shell am start on the package
StartApp ==
    /\ mpc = "start_app"
    /\ \E cfg \in Configs :
         IF get_package_name(cfg) # ""
         THEN \E o \in ShellOutcomes(issues, DevicesTimeout) :
                /\ cmds' = Append(cmds, Issued("start", o))
                /\ issues' = Recorded(issues, o)
                /\ deployed' = "True"
         ELSE /\ issues' = issues_append(issues, "Failed to install and launch app")
              /\ deployed' = "False"
              /\ UNCHANGED cmds
    /\ mpc' = "deploy_done"
    /\ UNCHANGED <<emulator_serial, pollerVars, auditVars, configVars, diagVars, startVars>>

\* main, lines 370-381: install_and_run_cordova has returned
AfterDeploy ==
    /\ mpc = "deploy_done"
    /\ IF deployed = "True"
       THEN /\ mpc' = "waiting"
            /\ UNCHANGED <<reported, exitcode>>
       ELSE /\ reported' = TRUE
            /\ exitcode' = "0"
            /\ mpc' = "finally"
    /\ UNCHANGED <<emulator_serial, issues, pollerVars, auditVars, configVars, diagVars, emulator_process, running,
                   max_retries, attempt, launches, log, started, deployed, cmds,
                   issues0>>

\* main, line 376: emulator_process.wait() returns, the emulator has exited
EmulatorExits ==
    /\ mpc = "waiting"
    /\ running' = FALSE
    /\ exitcode' = "0"
    /\ mpc' = "finally"
    /\ UNCHANGED <<emulator_serial, issues, pollerVars, auditVars, configVars, diagVars, emulator_process,
                   max_retries, attempt, launches, log, started, deployed, cmds,
                   issues0, reported>>

\* positions inside the try block of main
InTry == {"main", "start_emulator", "attempt", "launch", "settle", "reconnect",
          "poll", "failed", "start_done", "deploy", "build", "run", "fallback",
          "start_app", "deploy_done", "waiting"}

\* KeyboardInterrupt: caught at line 377 while main waits, otherwise it
\* passes every `except Exception` and leaves main through finally
Interrupt ==
    /\ mpc \in InTry
    /\ exitcode' = IF mpc = "waiting" THEN "0" ELSE "KeyboardInterrupt"
    /\ mpc' = "finally"
    /\ UNCHANGED <<emulator_serial, issues, pollerVars, auditVars, configVars, diagVars, emulator_process, running,
                   max_retries, attempt, launches, log, started, deployed, cmds,
                   issues0, reported>>

\* positions of main's try block outside the try of start_emulator_with_retry
Unprotected == {"main", "start_emulator", "start_done", "deploy", "build", "run",
                "fallback", "start_app", "deploy_done"}

\* main, lines 386-389: an exception nothing else handles
Unexpected ==
    /\ mpc \in Unprotected
    /\ issues' = issues_append(issues, "Unexpected error")
    /\ reported' = TRUE
    /\ exitcode' = "0"
    /\ mpc' = "finally"
    /\ UNCHANGED <<emulator_serial, pollerVars, auditVars, configVars, diagVars, emulator_process, running,
                   max_retries, attempt, launches, log, started, deployed, cmds,
                   issues0>>

\* main, lines 391-392 and 349-351: finally: cleanup()
Cleanup ==
    /\ mpc = "finally"
    /\ \E o1 \in ShellOutcomes(issues, DevicesTimeout) :
       \E o2 \in ShellOutcomes(Recorded(issues, o1), DevicesTimeout) :
         StopEmulator(o1, o2)
    /\ mpc' = "exited"
    /\ UNCHANGED <<emulator_serial, pollerVars, auditVars, configVars, diagVars, max_retries, attempt, launches,
                   log, started, deployed, cmds, issues0, reported, exitcode>>

MainInit ==
    /\ MainFresh("main", <<>>)
    /\ AuditFresh("idle", BareEnviron)
    /\ ToolsIdle
    /\ emulator_serial = None
    /\ issues = <<>>
    /\ PollerIdle

StartNext ==
    \/ \E m \in 0..MaxRetries : BeginStart(m)
    \/ NextAttempt
    \/ Launch
    \/ Settle
    \/ Reconnect
    \/ Poll
    \/ AttemptFailed

DeployNext ==
    \/ DeployResolve
    \/ Build
    \/ Run
    \/ Fallback
    \/ StartApp

MainNext ==
    \/ PerformHealthCheck
    \/ StartNext
    \/ AfterStart
    \/ DeployNext
    \/ AfterDeploy
    \/ EmulatorExits
    \/ Interrupt
    \/ Unexpected
    \/ Cleanup

\* one run of main
MainSpec == MainInit /\ [][MainNext]_vars

\* install_and_run_cordova called on an object whose identifier may or may
\* not be known and whose issue list may already hold an entry
DeployInit ==
    /\ emulator_serial \in ResolvedSerials \cup {None}
    /\ issues \in {<<>>, <<"error">>}
    /\ MainFresh("deploy", issues)
    /\ AuditFresh("idle", BareEnviron)
    /\ ToolsIdle
    /\ PollerIdle

DeploySpec == DeployInit /\ [][DeployNext]_vars

----------------------------------------------------------------------------
(* Properties of the health-check flow *)

\* start_emulator_with_retry has returned
StartReturned == mpc = "start_done"

C11_State ==
    /\ launches <= max_retries
    /\ attempt <= max_retries
    /\ started = "True" =>
          /\ retval = "True"
          /\ log[Len(log)] = "poll"
          /\ attempt < max_retries
    /\ started = "False" => attempt = max_retries
    /\ StartReturned => (started = "False" <=> attempt = max_retries)

C11_Step == started # "None" => launches' = launches /\ attempt' = attempt

\* C11: start_emulator_with_retry(max_retries) launches the emulator at most
\* max_retries times; it returns success at the first attempt whose readiness
\* poll returned success and launches nothing after that; it returns failure
\* exactly when all max_retries attempts failed.
C11_BoundedRetries == []C11_State /\ [][C11_Step]_vars

\* success at the second attempt, after the first one failed
C11_Witness ==
    /\ StartReturned
    /\ started = "True"
    /\ max_retries = 2
    /\ attempt = 1
    /\ launches = 2

\* the position of the first e in l, 0 when it has none
Pos(l, e) ==
    IF \E i \in DOMAIN l : l[i] = e
    THEN CHOOSE i \in DOMAIN l : l[i] = e /\ \A j \in 1..(i - 1) : l[j] # e
    ELSE 0

\* the attempt of the log is over
AttemptOver == log # <<>> /\ log[Len(log)] = "stop_emulator"

\* C12 as stated: the device-bridge reset of an attempt precedes its launch,
\* and every attempt that launched the emulator runs the readiness poller.
C12_Original ==
    /\ Pos(log, "launch") # 0 =>
          /\ Pos(log, "adb kill-server") # 0
          /\ Pos(log, "adb kill-server") < Pos(log, "launch")
    /\ (AttemptOver /\ Pos(log, "launch") # 0) => Pos(log, "poll") # 0

\* an attempt that goes all the way
FullAttempt ==
    <<"taskkill", "sleep", "launch", "settle", "adb kill-server",
      "adb start-server", "poll", "stop_emulator">>

\* an attempt in which the listing after the reset showed no emulator
NoEmulatorAttempt ==
    <<"taskkill", "sleep", "launch", "settle", "adb kill-server",
      "adb start-server", "stop_emulator">>

\* an attempt whose launch raised
NoLaunchAttempt == <<"taskkill", "sleep", "stop_emulator">>

IsPrefix(l, m) == Len(l) <= Len(m) /\ \A i \in DOMAIN l : l[i] = m[i]

\* C12 (amended): in every start attempt the order is kill, launch, settle
\* wait, device-bridge reset (stop, start, list), readiness poll; the reset
\* follows the launch and the settle wait, and the poller runs in exactly
\* the attempts whose listing after the reset showed an emulator.
C12_AttemptOrder ==
    /\ \/ IsPrefix(log, FullAttempt)
       \/ log = NoEmulatorAttempt
       \/ log = NoLaunchAttempt
    /\ mpc = "poll" => emulator_serial # None
    /\ mpc = "failed" => (Pos(log, "poll") = 0 <=> emulator_serial = None)

\* an attempt that launched the emulator and ended without polling
C12_Witness ==
    /\ mpc = "attempt"
    /\ log = NoEmulatorAttempt
    /\ emulator_serial = None

\* C13: on every failure path the spawned emulator process is terminated by
\* stop_emulator before the next attempt launches or the process exits, and
\* once start_emulator_with_retry has returned failure no process handle is
\* kept.
C13_EmulatorStopped ==
    /\ mpc = "launch" => ~running /\ emulator_process = "None"
    /\ mpc = "exited" => ~running /\ emulator_process = "None"
    /\ started = "False" => ~running /\ emulator_process = "None"

\* the flow was interrupted while the launched emulator was settling and has
\* exited
C13_Witness ==
    /\ mpc = "exited"
    /\ exitcode = "KeyboardInterrupt"
    /\ log = <<"taskkill", "sleep", "launch", "settle">>
    /\ launches = 2
    /\ ~running

\* the commands install_and_run_cordova has issued under the name c
IssuedAs(c) == {i \in DOMAIN cmds : cmds[i].cmd = c}

\* the command at position i of cmds ran and exited with status zero
ExitedZero(i) == cmds[i].kind = "done" /\ cmds[i].returncode = 0

\* C14: installation is attempted only after the build command completed
\* successfully; a build that does not succeed (non-zero exit, timeout or
\* execution error) is recorded, returns False and is followed by no install
\* or launch command.
C14_InstallOnlyAfterBuild ==
    \A b \in IssuedAs("build") :
        ~ExitedZero(b) =>
            /\ Len(cmds) = b
            /\ mpc = "deploy_done"
            /\ deployed = "False"
            /\ Len(issues) > Len(issues0)

\* C15: the fallback is entered only after the run command failed, the
\* start command is issued only after the install exited with status zero,
\* and deployment succeeds on the fallback path only when the install
\* succeeded and the start command was issued and did not fail.
C15_FallbackSuccess ==
    /\ \A i \in IssuedAs("install") :
          \E r \in IssuedAs("run") : r < i /\ ~ExitedZero(r)
    /\ \A t \in IssuedAs("start") :
          \E i \in IssuedAs("install") : i < t /\ ExitedZero(i)
    /\ (deployed = "True" /\ IssuedAs("install") # {}) =>
          /\ \A i \in IssuedAs("install") : ExitedZero(i)
          /\ \E t \in IssuedAs("start") : ExitedZero(t)

\* what C16 says of every state of a call of install_and_run_cordova
C16_State ==
    /\ deployed = "False" => Len(issues) > Len(issues0)
    /\ mpc = "deploy_done" => deployed \in {"True", "False"}
    /\ IsPrefix(issues0, issues)

\* C16: whenever install_and_run_cordova returns False at least one entry
\* was appended to self.issues during the call; a failing external command
\* never makes it raise, it returns True or False; recorded issues are never
\* removed.
C16_FailureRecorded == []C16_State /\ [][IsPrefix(issues, issues')]_vars

\* the direct install failed on an object that already had an issue
C16_Witness ==
    /\ mpc = "deploy_done"
    /\ deployed = "False"
    /\ issues0 = <<"error">>
    /\ IssuedAs("install") # {}
    /\ issues = <<"error", "Failed to install and launch app">>

\* main has ended by one of the paths it provides for: a failed
\* prerequisite, a failed start, a failed deployment, an unexpected
\* exception, or a deployment followed by the emulator's exit or an interrupt
EndedAsProvided == mpc = "exited" /\ exitcode # "KeyboardInterrupt"

\* C17: on every path by which main ends the final report is printed before
\* the process exits; an unexpected exception is caught, appended to
\* self.issues and reported.
C17_ReportAlwaysPrinted ==
    /\ EndedAsProvided => reported
    /\ (\E i \in DOMAIN issues : issues[i] = "Unexpected error") => reported

----------------------------------------------------------------------------
(* The system audit: SystemAuditor.run_audit and main of                   *)
(* src/smartchat_audit.py.  The external tools and the file system are the *)
(* environment; run_command catches every exception, so a check always     *)
(* returns its AuditResult.  fix_suggestion is text for the reader and is  *)
(* left out of the record.                                                 *)

\* lines 431-437 and 446: the SDK sub-paths, in order
Components ==
    <<"emulator", "platform-tools", "tools", "tools/bin", "cmdline-tools/latest/bin">>

ComponentSet == {Components[i] : i \in DOMAIN Components}

\* lines 88-96
AuditResult(name, passed, details, warning) ==
    [name |-> name, passed |-> passed, details |-> details, warning |-> warning]

\* the environments the audit is run in
SdkDirs ==
    {ComponentSet,
     {"emulator", "platform-tools", "cmdline-tools/latest/bin"},
     {"emulator", "platform-tools"}}
PathSets == {{}, ComponentSet, {"emulator", "tools/bin"}}
Environs ==
    [ANDROID_HOME : {"unset", "sdk", "stale"}, common : BOOLEAN,
     dirs : SdkDirs, PATH : PathSets]

\* what the audit's run_command can return for a version query: the
\* command failed, or it printed version major.minor (minor written with
\* `digits` digits), or something no version can be read from
NoVersion == [success |-> TRUE, matched |-> FALSE, major |-> 0, minor |-> 0, digits |-> 1]
Version(major, minor, digits) ==
    [success |-> TRUE, matched |-> TRUE, major |-> major, minor |-> minor,
     digits |-> digits]
CommandFailed == [success |-> FALSE, matched |-> FALSE, major |-> 0, minor |-> 0, digits |-> 1]

JavaOutcomes == {CommandFailed, NoVersion, Version(11, 0, 1), Version(17, 0, 1), Version(21, 0, 1)}
GradleOutcomes ==
    {CommandFailed, NoVersion, Version(7, 6, 1), Version(8, 2, 1), Version(8, 13, 2),
     Version(9, 0, 1)}
PlainOutcomes == {CommandFailed, NoVersion}

\* lines 146-181
check_java(o) ==
    IF ~o.success THEN AuditResult("OpenJDK 17.0.17", FALSE, "Not installed", FALSE)
    ELSE IF ~o.matched
    THEN AuditResult("OpenJDK 17.0.17", FALSE, "Version could not be determined", FALSE)
    ELSE IF o.major = 17 THEN AuditResult("OpenJDK 17.0.17", TRUE, "version", FALSE)
    ELSE AuditResult("OpenJDK 17.0.17", FALSE, "requires 17.x.x", o.major >= 17)

\* lines 183-200
check_cordova(o) ==
    IF ~o.success THEN AuditResult("Cordova (latest)", FALSE, "Not installed", FALSE)
    ELSE AuditResult("Cordova (latest)", TRUE, "version", FALSE)

\* lines 202-232
check_android_studio(found) ==
    IF found THEN AuditResult("Android Studio", TRUE, "path", FALSE)
    ELSE AuditResult("Android Studio", FALSE, "Not found in common locations", FALSE)

\* lines 240-262: where check_android_sdk finds the SDK
LocateSdk(e) ==
    IF e.ANDROID_HOME = "sdk" THEN "ANDROID_HOME"
    ELSE IF e.common THEN "common" ELSE "None"

\* lines 234-269
check_android_sdk(e) ==
    IF LocateSdk(e) # "None" THEN AuditResult("Android SDK", TRUE, LocateSdk(e), FALSE)
    ELSE AuditResult("Android SDK", FALSE, "Not found", FALSE)

\* line 286: path_str in path_env, a substring test: the tools directory is
\* found in an entry for tools/bin
PathContains(path, c) == \E d \in path : c = d \/ (c = "tools" /\ d = "tools/bin")

\* lines 271-294
check_path_component(e, c) ==
    IF c \notin e.dirs
    THEN AuditResult("PATH - " \o c, FALSE, "Component directory not found", FALSE)
    ELSE IF PathContains(e.PATH, c)
    THEN AuditResult("PATH - " \o c, TRUE, "Found in PATH", FALSE)
    ELSE AuditResult("PATH - " \o c, FALSE, "Not in PATH", FALSE)

\* lines 300-309: avdmanager is looked for in two of the sub-paths
HasAvdManager(e) == "cmdline-tools/latest/bin" \in e.dirs \/ "tools/bin" \in e.dirs

\* lines 296-331; o.matched: the listing names Pixel_4
check_emulator(e, o) ==
    IF ~HasAvdManager(e)
    THEN AuditResult("Pixel_4 Emulator", FALSE, "avdmanager not found", FALSE)
    ELSE IF o.success /\ o.matched
    THEN AuditResult("Pixel_4 Emulator", TRUE, "Device configured", FALSE)
    ELSE AuditResult("Pixel_4 Emulator", FALSE, "Not found", FALSE)

Pow10(n) == IF n = 0 THEN 1 ELSE IF n = 1 THEN 10 ELSE IF n = 2 THEN 100 ELSE 1000

\* line 353: float(version), in thousandths
AsFloat(o) == o.major * 1000 + o.minor * Pow10(3 - o.digits)

\* lines 333-365
check_gradle(o) ==
    IF ~o.success
    THEN AuditResult("Gradle 8.13+", FALSE, "Not installed or not in PATH", TRUE)
    ELSE IF ~o.matched
    THEN AuditResult("Gradle 8.13+", FALSE, "Version could not be determined", TRUE)
    ELSE IF AsFloat(o) >= 8130 THEN AuditResult("Gradle 8.13+", TRUE, "Version", FALSE)
    ELSE AuditResult("Gradle 8.13+", FALSE, "below minimum (8.13)", FALSE)

\* lines 367-376
check_sdk_version_config ==
    AuditResult("SDK Version Config", TRUE, "Min SDK: 24, Max SDK: 35", TRUE)

\* lines 378-395
check_nodejs(o) ==
    IF ~o.success THEN AuditResult("Node.js", FALSE, "Not installed", FALSE)
    ELSE AuditResult("Node.js", TRUE, "version", FALSE)

\* lines 397-409: the audit is Python 3 source, so the interpreter is 3.x
check_python(major) ==
    IF major >= 3 THEN AuditResult("Python 3.x", TRUE, "Version", FALSE)
    ELSE AuditResult("Python 3.x", FALSE, "Found Python", FALSE)

\* line 430: if sdk_path
SdkFound_Always(path) == TRUE
SdkFound(path) == path # "None"

\* lines 446-451: the entries recorded when there is no SDK
NoSdkResults ==
    [i \in DOMAIN Components |->
        AuditResult("PATH - " \o Components[i], FALSE, "SDK not found", FALSE)]

\* lines 591-599: the exit status of a completed audit
ExitStatus_NoWarnings(res) ==
    IF \A i \in DOMAIN res : res[i].passed /\ ~res[i].warning THEN "0" ELSE "1"
ExitStatus(res) ==
    IF Cardinality({i \in DOMAIN res : res[i].passed}) = Len(res) THEN "0" ELSE "1"

\* a check is called and its result appended to self.results
Record(check, r, next) ==
    /\ results' = Append(results, r)
    /\ calls' = Append(calls, check)
    /\ apc' = next
    /\ UNCHANGED <<environ, report_saved, audit_exit, spinner>>

\* everything the audit does not touch
healthVars == <<emulator_serial, issues, pollerVars, mainVars, configVars, diagVars>>

\* lines 585-586 and 411-414: main enters run_audit
BeginAudit ==
    /\ apc = "main"
    /\ apc' = "java"
    /\ UNCHANGED <<spinner, results, sdk_path, environ, calls, report_saved, audit_exit,
                   healthVars>>

\* line 417
CheckJava ==
    /\ apc = "java"
    /\ \E o \in JavaOutcomes : Record("check_java", check_java(o), "cordova")
    /\ UNCHANGED <<sdk_path, healthVars>>

\* line 420
CheckCordova ==
    /\ apc = "cordova"
    /\ \E o \in PlainOutcomes : Record("check_cordova", check_cordova(o), "android_studio")
    /\ UNCHANGED <<sdk_path, healthVars>>

\* line 423
CheckAndroidStudio ==
    /\ apc = "android_studio"
    /\ \E found \in BOOLEAN :
         Record("check_android_studio", check_android_studio(found), "android_sdk")
    /\ UNCHANGED <<sdk_path, healthVars>>

\* lines 426-430
CheckAndroidSdk ==
    /\ apc = "android_sdk"
    /\ sdk_path' = LocateSdk(environ)
    /\ Record("check_android_sdk", check_android_sdk(environ),
              IF SdkFound(sdk_path') THEN "paths" ELSE "no_sdk")
    /\ UNCHANGED healthVars

\* lines 439-440: the next of the five components is checked
CheckPathComponent ==
    /\ apc = "paths"
    /\ LET k == Len(results) - 3
       IN  Record("check_path_component", check_path_component(environ, Components[k]),
                  IF k < Len(Components) THEN "paths" ELSE "emulator")
    /\ UNCHANGED <<sdk_path, healthVars>>

\* line 442
CheckEmulator ==
    /\ apc = "emulator"
    /\ \E o \in PlainOutcomes \cup {Version(0, 0, 1)} :
         Record("check_emulator", check_emulator(environ, o), "gradle")
    /\ UNCHANGED <<sdk_path, healthVars>>

\* line 443
CheckGradle ==
    /\ apc = "gradle"
    /\ \E o \in GradleOutcomes : Record("check_gradle", check_gradle(o), "version_config")
    /\ UNCHANGED <<sdk_path, healthVars>>

\* lines 444-451: no SDK, the five PATH entries are recorded as failed
MarkNoSdk ==
    /\ apc = "no_sdk"
    /\ results' = results \o NoSdkResults
    /\ apc' = "version_config"
    /\ UNCHANGED <<spinner, sdk_path, environ, calls, report_saved, audit_exit, healthVars>>

\* line 454
CheckSdkVersionConfig ==
    /\ apc = "version_config"
    /\ Record("check_sdk_version_config", check_sdk_version_config, "nodejs")
    /\ UNCHANGED <<sdk_path, healthVars>>

\* line 457
CheckNodejs ==
    /\ apc = "nodejs"
    /\ \E o \in PlainOutcomes : Record("check_nodejs", check_nodejs(o), "python")
    /\ UNCHANGED <<sdk_path, healthVars>>

\* lines 460-462 and 587: the last check, run_audit returns, print_results
CheckPython ==
    /\ apc = "python"
    /\ Record("check_python", check_python(3), "report")
    /\ UNCHANGED <<sdk_path, healthVars>>

\* lines 588 and 491-546: the report file is written, or the write fails
\* and the exception is caught
GenerateReport ==
    /\ apc = "report"
    /\ report_saved' \in {"saved", "failed"}
    /\ apc' = "exit"
    /\ UNCHANGED <<spinner, results, sdk_path, environ, calls, audit_exit, healthVars>>

\* lines 591-599: sys.exit
AuditExit ==
    /\ apc = "exit"
    /\ audit_exit' = ExitStatus(results)
    /\ apc' = "exited"
    /\ UNCHANGED <<spinner, results, sdk_path, environ, calls, report_saved, healthVars>>

AuditInit ==
    /\ MainFresh("idle", <<>>)
    /\ emulator_serial = None
    /\ issues = <<>>
    /\ PollerIdle
    /\ \E e \in Environs : AuditFresh("main", e)
    /\ ToolsIdle

AuditNext ==
    \/ BeginAudit
    \/ CheckJava
    \/ CheckCordova
    \/ CheckAndroidStudio
    \/ CheckAndroidSdk
    \/ CheckPathComponent
    \/ CheckEmulator
    \/ CheckGradle
    \/ MarkNoSdk
    \/ CheckSdkVersionConfig
    \/ CheckNodejs
    \/ CheckPython
    \/ GenerateReport
    \/ AuditExit

\* one run of the audit
AuditSpec == AuditInit /\ [][AuditNext]_vars

----------------------------------------------------------------------------
(* Properties of the system audit *)

\* the SDK-location check has been recorded as failed
SdkCheckFailed == Len(results) >= 4 /\ ~results[4].passed

\* the results the per-component PATH checks stand at
PathEntries == {i \in DOMAIN results : results[i].details = "SDK not found"}

C18_State ==
    SdkCheckFailed =>
        /\ apc \notin {"paths", "emulator", "gradle"}
        /\ \A i \in DOMAIN calls : calls[i] # "check_path_component"
        /\ apc # "no_sdk" =>
              /\ Len(results) >= 4 + Len(Components)
              /\ PathEntries = 5..(4 + Len(Components))
              /\ \A i \in DOMAIN Components :
                    results[4 + i] =
                        AuditResult("PATH - " \o Components[i], FALSE, "SDK not found", FALSE)

\* C18: when the SDK-location check fails the results hold exactly one
\* entry for each of the five SDK sub-path components, in the fixed order,
\* each failed with details 'SDK not found'; check_path_component is not
\* called, and the audit changes no environment value.
C18_NoSdkEntries == []C18_State /\ [][environ' = environ]_vars

\* a finished audit whose ANDROID_HOME points nowhere and that found no SDK
C18_Witness ==
    /\ apc = "exited"
    /\ environ.ANDROID_HOME = "stale"
    /\ sdk_path = "None"
    /\ SdkCheckFailed
    /\ Len(results) = 12

\* the names of the audit's checks, in order
CheckNames ==
    <<"OpenJDK 17.0.17", "Cordova (latest)", "Android Studio", "Android SDK">>
    \o [i \in DOMAIN Components |-> "PATH - " \o Components[i]]
    \o <<"Pixel_4 Emulator", "Gradle 8.13+", "SDK Version Config", "Node.js",
         "Python 3.x">>

\* C19: every check of the fixed list produces exactly one AuditResult in
\* every run, SDK located or not; without the SDK the five PATH components,
\* the emulator profile check and the build-tool version check are recorded
\* as failed with reason 'SDK not found'.
C19_SameChecksEveryRun ==
    apc = "exited" =>
        /\ [i \in DOMAIN results |-> results[i].name] = CheckNames
        /\ SdkCheckFailed =>
              \A i \in 5..11 : ~results[i].passed /\ results[i].details = "SDK not found"

\* C20: the audit exits with status 0 exactly when every recorded result
\* has passed, and with status 1 when at least one has not, whatever the
\* warning flags are and whether or not the report file was written.
C20_ExitStatus ==
    apc = "exited" =>
        /\ audit_exit = "0" <=> \A i \in DOMAIN results : results[i].passed
        /\ audit_exit = "1" <=> \E i \in DOMAIN results : ~results[i].passed

\* every check passed, one of them with a warning, and the report could not
\* be written
C20_Witness ==
    /\ apc = "exited"
    /\ audit_exit = "0"
    /\ report_saved = "failed"
    /\ Len(results) = Len(CheckNames)
    /\ \E i \in DOMAIN results : results[i].warning

----------------------------------------------------------------------------
(* The audit under a keyboard interrupt: the spinner thread of the check   *)
(* that is running (ProgressSpinner, lines 60-86) and the handler of main  *)
(* (lines 601-603)                                                         *)

\* the positions whose check starts a spinner before its command and
\* stops it after (check_java, check_cordova, check_android_studio,
\* check_android_sdk, check_emulator, check_gradle, check_nodejs,
\* generate_report)
SpinnerChecks ==
    {"java", "cordova", "android_studio", "android_sdk", "emulator", "gradle",
     "nodejs", "report"}

\* the positions inside the try block of main
InAudit ==
    {"main", "java", "cordova", "android_studio", "android_sdk", "paths", "no_sdk",
     "emulator", "gradle", "version_config", "nodejs", "python", "report", "exit"}

\* lines 78-81: start()
spinner_start == [running |-> TRUE, thread |-> "alive", idx |-> 0]

\* line 80: threading.Thread(target=self.spin) is not a daemon thread, so
\* the interpreter waits for it before the process ends
KeepsProcessAlive(sp) == sp.thread = "alive"

\* lines 601-603: KeyboardInterrupt reaches main, which calls sys.exit(130).
\* It is raised between two checks, or inside a check whose spinner has
\* been started: no check stops its spinner on the way out
AuditInterrupt ==
    /\ apc \in InAudit
    /\ \/ spinner' = spinner
       \/ /\ apc \in SpinnerChecks
          /\ spinner' = spinner_start
    /\ audit_exit' = "130"
    /\ apc' = "exiting"
    /\ UNCHANGED <<results, sdk_path, environ, calls, report_saved, healthVars>>

\* lines 69-76: one turn of spin() on the spinner thread
Spin ==
    /\ spinner.thread = "alive"
    /\ spinner' = IF spinner.running
                  THEN [spinner EXCEPT !.idx = (spinner.idx + 1) % 4]
                  ELSE [spinner EXCEPT !.thread = "ended"]
    /\ UNCHANGED <<apc, results, sdk_path, environ, calls, report_saved, audit_exit,
                   healthVars>>

\* sys.exit has been called: the process ends once no thread keeps it alive
ProcessEnd ==
    /\ apc = "exiting"
    /\ ~KeepsProcessAlive(spinner)
    /\ apc' = "exited"
    /\ UNCHANGED <<results, sdk_path, environ, calls, report_saved, audit_exit,
                   spinner, healthVars>>

MainThread == AuditNext \/ ProcessEnd

InterruptNext ==
    \/ AuditNext
    \/ AuditInterrupt
    \/ Spin
    \/ ProcessEnd

\* one run of the audit that the user may interrupt; both threads keep
\* running while they can
InterruptSpec ==
    AuditInit /\ [][InterruptNext]_vars /\ WF_vars(MainThread) /\ WF_vars(Spin)

\* C21: an interrupted audit eventually terminates with exit status 130,
\* and no spinner thread is left running.
C21_InterruptTerminates ==
    /\ (audit_exit = "130") ~> (apc = "exited" /\ audit_exit = "130")
    /\ [](apc = "exited" => spinner.thread # "alive")

----------------------------------------------------------------------------
(* Termination of the poller *)

InIteration == pc \in {"step1", "step2", "step3", "step4", "step5", "sleep"}

\* the iterations the session has begun: each one that has ended was
\* followed by a sleep, except the one that returned success
Iterations ==
    IF InIteration \/ (pc = "done" /\ retval = "True") THEN sleeps + 1 ELSE sleeps

CeilDiv(a, b) == (a + b - 1) \div b

C24_State ==
    /\ Elapsed >= SleepInterval * sleeps
    /\ Iterations <= CeilDiv(timeout, SleepInterval)

\* an iteration is left for the sleep or by returning success; the sleep
\* advances the clock by the interval, once, and leads to the loop test
C24_Step ==
    /\ (InIteration /\ pc # "sleep" /\ pc' \notin {"step1", "step2", "step3", "step4", "step5"})
          => \/ pc' = "sleep" /\ sleeps' = sleeps
             \/ pc' = "done" /\ retval' = "True"
    /\ pc = "sleep"
          => /\ pc' = "loop"
             /\ now' = now + SleepInterval
             /\ sleeps' = sleeps + 1
    /\ (pc # "sleep" /\ InSession) => sleeps' = sleeps

----------------------------------------------------------------------------
(* check_gradle on its own (lines 333-365): the version `gradle --version` *)
(* reports is drawn from the environment and the check is applied to it    *)

MaxMinor == 20       \* largest minor version number reported

\* major.minor as printed: the minor number written with one or two digits
GradleVersions ==
    {Version(major, minor, digits) :
        major \in 7..9, minor \in 0..MaxMinor, digits \in 1..2}

\* the versions whose minor number fits its digits, and the two outcomes
\* without a version
GradleReports ==
    {o \in GradleVersions : o.minor < Pow10(o.digits)} \cup {CommandFailed, NoVersion}

GradleInit ==
    /\ MainFresh("idle", <<>>)
    /\ emulator_serial = None
    /\ issues = <<>>
    /\ PollerIdle
    /\ ToolsIdle
    /\ apc = "gradle"
    /\ results = <<>>
    /\ sdk_path = "ANDROID_HOME"
    /\ \E o \in GradleReports :
          environ = [ANDROID_HOME |-> "sdk", common |-> FALSE, dirs |-> {}, PATH |-> {},
                     gradle |-> o]
    /\ calls = <<>>
    /\ report_saved = "None"
    /\ audit_exit = "None"
    /\ spinner = NoSpinner

\* line 443: results.append(self.check_gradle(sdk_path))
CheckGradleReported ==
    /\ apc = "gradle"
    /\ Record("check_gradle", check_gradle(environ.gradle), "version_config")
    /\ UNCHANGED <<sdk_path, healthVars>>

GradleSpec == GradleInit /\ [][CheckGradleReported]_vars

\* major.minor is at least 8.13 in version order
AtLeast_8_13(o) == o.major > 8 \/ (o.major = 8 /\ o.minor >= 13)

\* C28: the Gradle check passes exactly when the reported version
\* major.minor is at least 8.13 in version order, major compared first, then
\* minor, both as integers: 8.13, 8.14 and 9.0 pass, 8.2 and 8.9 fail.
C28_VersionOrder ==
    apc = "version_config" =>
        (results[1].passed <=>
            (environ.gradle.success /\ environ.gradle.matched /\ AtLeast_8_13(environ.gradle)))

----------------------------------------------------------------------------
(* The emulator diagnostic (emulator_diagnostic.py, lines 70-125): the     *)
(* reader thread puts the emulator's output lines on a queue, the main     *)
(* thread takes them off with a one-second timeout for 90 seconds.  Time   *)
(* is counted in whole seconds since start_time.                           *)

MaxLines == 2        \* most lines the emulator prints

MonitorWindow == 90  \* while time.time() - start_time < 90
AdbPeriod == 15      \* int(elapsed) % 15 == 0
GetTimeout == 1      \* q.get(timeout=1)
CmdTimeout == 30     \* run_cmd: subprocess.run(..., timeout=30)

\* the k-th line the emulator prints; its text is plain, or has INFO and
\* "boot completed", or has "boot completed" without INFO
LineTexts == {"plain", "INFO boot completed", "boot completed"}
OutputLine(k, text) == [n |-> k, text |-> text]

\* line 91: the None put after the last line
EndOfStream == [n |-> 0, text |-> "None"]

\* line 110
BootCompleted(line) == line.text = "INFO boot completed"

\* lines 90, 91: q.put(item)
q_put_Front(queue, item) == <<item>> \o queue
q_put(queue, item) == Append(queue, item)

\* lines 10-17 and 122: what `adb devices` gives the loop: no result (the
\* command raised or ran into its timeout), or a listing that names an
\* emulator or does not
AdbReports ==
    {[ran |-> FALSE, emulator |-> FALSE, dur |-> 0],
     [ran |-> FALSE, emulator |-> FALSE, dur |-> CmdTimeout],
     [ran |-> TRUE, emulator |-> FALSE, dur |-> 0],
     [ran |-> TRUE, emulator |-> TRUE, dur |-> 0]}

\* line 122; the header "List of devices attached" always has "device"
ShowsEmulator(r) == r.ran /\ r.emulator

\* everything the diagnostic does not touch
nonDiagVars == <<emulator_serial, issues, pollerVars, mainVars, auditVars, configVars>>

\* lines 72-98: the emulator is started, the clock read, the reader started
StartMonitor ==
    /\ dpc = "main"
    /\ dpc' = "loop"
    /\ rpc' = "reading"
    /\ dnow' = 0
    /\ emulator_found' = FALSE
    /\ q' = <<>>
    /\ UNCHANGED <<enqueued, dequeued, processed, ended_by, nonDiagVars>>

\* lines 89-90: the reader thread reads the next line and puts it
ReadOutputLine ==
    /\ rpc = "reading"
    /\ Len(enqueued) < MaxLines
    /\ \E text \in LineTexts :
          LET line == OutputLine(Len(enqueued) + 1, text)
          IN  /\ q' = q_put(q, line)
              /\ enqueued' = Append(enqueued, line)
    /\ UNCHANGED <<dpc, rpc, dequeued, processed, dnow, emulator_found, ended_by,
                   nonDiagVars>>

\* lines 89 and 91: readline returns '', the reader puts None and ends
ReadOutputEnd ==
    /\ rpc = "reading"
    /\ q' = q_put(q, EndOfStream)
    /\ enqueued' = Append(enqueued, EndOfStream)
    /\ rpc' = "ended"
    /\ UNCHANGED <<dpc, dequeued, processed, dnow, emulator_found, ended_by, nonDiagVars>>

\* line 100: the loop test; lines 127 on when the window is over
MonitorTest ==
    /\ dpc = "loop"
    /\ IF dnow < MonitorWindow
       THEN dpc' = "get" /\ ended_by' = ended_by
       ELSE dpc' = "after" /\ ended_by' = "deadline"
    /\ UNCHANGED <<rpc, q, enqueued, dequeued, processed, dnow, emulator_found,
                   nonDiagVars>>

\* lines 102-115: q.get returns an item within the timeout
MonitorGet ==
    /\ dpc = "get"
    /\ q # <<>>
    /\ LET line == Head(q)
       IN  /\ q' = Tail(q)
           /\ dequeued' = Append(dequeued, line)
           /\ IF line = EndOfStream
              THEN /\ dpc' = "after"
                   /\ ended_by' = "eof"
                   /\ UNCHANGED <<processed, emulator_found>>
              ELSE /\ dpc' = "loop"
                   /\ ended_by' = ended_by
                   /\ processed' = Append(processed, line)
                   /\ emulator_found' = (emulator_found \/ BootCompleted(line))
    /\ \E d \in {0, GetTimeout} : dnow' = dnow + d
    /\ UNCHANGED <<rpc, enqueued, nonDiagVars>>

\* lines 102 and 117-119: nothing arrived within the timeout
MonitorEmpty ==
    /\ dpc = "get"
    /\ q = <<>>
    /\ dnow' = dnow + GetTimeout
    /\ dpc' = IF dnow' % AdbPeriod = 0 THEN "adb" ELSE "loop"
    /\ UNCHANGED <<rpc, q, enqueued, dequeued, processed, emulator_found, ended_by,
                   nonDiagVars>>

\* lines 120-125
MonitorAdb ==
    /\ dpc = "adb"
    /\ \E r \in AdbReports :
          /\ dnow' = dnow + r.dur
          /\ IF ShowsEmulator(r)
             THEN emulator_found' = TRUE /\ dpc' = "after" /\ ended_by' = "adb"
             ELSE emulator_found' = emulator_found /\ dpc' = "loop" /\ ended_by' = ended_by
    /\ UNCHANGED <<rpc, q, enqueued, dequeued, processed, nonDiagVars>>

MonitorThread == StartMonitor \/ MonitorTest \/ MonitorGet \/ MonitorEmpty \/ MonitorAdb

DiagInit ==
    /\ MainFresh("idle", <<>>)
    /\ AuditFresh("idle", BareEnviron)
    /\ ConfigFresh("idle", BareConfigEnv, EmptyStore)
    /\ emulator_serial = None
    /\ issues = <<>>
    /\ PollerIdle
    /\ DiagFresh("main", "idle")

DiagNext ==
    \/ StartMonitor
    \/ ReadOutputLine
    \/ ReadOutputEnd
    \/ MonitorTest
    \/ MonitorGet
    \/ MonitorEmpty
    \/ MonitorAdb

\* the main thread keeps running; the emulator prints and exits as it likes
DiagSpec == DiagInit /\ [][DiagNext]_vars /\ WF_vars(MonitorThread)

----------------------------------------------------------------------------
(* Properties of the emulator diagnostic *)

WithoutMarker(seq) == SelectSeq(seq, LAMBDA x : x # EndOfStream)

C27_State ==
    \* the lines are enqueued in the order produced, then one marker
    /\ \A i \in 1..Len(enqueued) :
          IF enqueued[i] = EndOfStream
          THEN i = Len(enqueued) /\ rpc = "ended"
          ELSE enqueued[i].n = i
    /\ rpc = "ended" => (enqueued # <<>> /\ enqueued[Len(enqueued)] = EndOfStream)
    \* dequeued in that order, none lost, none twice
    /\ dequeued \o q = enqueued
    /\ processed = WithoutMarker(dequeued)
    \* how the loop ends
    /\ dpc = "after" <=> ended_by # "None"
    /\ ended_by = "eof" <=> (dequeued # <<>> /\ dequeued[Len(dequeued)] = EndOfStream)
    /\ ended_by = "adb" => emulator_found
    /\ ended_by = "deadline" => dnow >= MonitorWindow

C27_Step == dpc = "after" => (dequeued' = dequeued /\ processed' = processed)

\* C27: the reader enqueues every output line in the order produced,
\* followed by one end-of-stream marker; the main thread dequeues them in
\* that order with none lost or duplicated; the monitoring loop always
\* terminates, on the marker, on an ADB check that shows the emulator, or
\* once 90 time units have elapsed; nothing is processed after it ended.
C27_QueueOrderAndTermination ==
    /\ []C27_State
    /\ [][C27_Step]_vars
    /\ (dpc = "main" ~> dpc = "after")

\* both lines were taken off and printed, then the marker ended the loop,
\* and more was on the way
C27_Witness ==
    /\ ended_by = "eof"
    /\ Len(processed) = MaxLines
    /\ processed[1].n = 1
    /\ processed[MaxLines].n = MaxLines
    /\ emulator_found

----------------------------------------------------------------------------
(* The PATH configurator (setup_cordova_path.py) on Windows.  A path or a  *)
(* PATH value is the sequence of its pieces: directory names, the          *)
(* separators "\\" and "/", the list separator ";" and the blank.          *)

BSL == "\\"
FSL == "/"
SEMI == ";"

\* str.lower(), piece by piece
LowerTok(t) ==
    CASE t = "C:" -> "c:"
      [] t = "D:" -> "d:"
      [] t \in {"Android", "ANDROID"} -> "android"
      [] t \in {"Sdk", "SDK"} -> "sdk"
      [] t = "Windows" -> "windows"
      [] t = "EMULATOR" -> "emulator"
      [] t = "PLATFORM-TOOLS" -> "platform-tools"
      [] t = "TOOLS" -> "tools"
      [] t = "BIN" -> "bin"
      [] t = "CMDLINE-TOOLS" -> "cmdline-tools"
      [] t = "LATEST" -> "latest"
      [] t = "Y" -> "y"
      [] t = "N" -> "n"
      [] OTHER -> t

\* the same directory names as a user may have typed them in capitals
UpperTok(t) ==
    CASE t = "Android" -> "ANDROID"
      [] t = "Sdk" -> "SDK"
      [] t = "emulator" -> "EMULATOR"
      [] t = "platform-tools" -> "PLATFORM-TOOLS"
      [] t = "tools" -> "TOOLS"
      [] t = "bin" -> "BIN"
      [] t = "cmdline-tools" -> "CMDLINE-TOOLS"
      [] t = "latest" -> "LATEST"
      [] OTHER -> t

\* Python: s.lower()
lower_Keep(s) == s
lower(s) == [i \in DOMAIN s |-> LowerTok(s[i])]

\* Python: s.split(sep)
RECURSIVE split(_, _)
split(s, sep) ==
    LET hits == {i \in 1..Len(s) : s[i] = sep}
    IN  IF hits = {} THEN <<s>>
        ELSE <<SubSeq(s, 1, Min(hits) - 1)>> \o split(SubSeq(s, Min(hits) + 1, Len(s)), sep)

\* Python: sep.join(list)
RECURSIVE join(_, _)
join(list, sep) ==
    IF list = <<>> THEN <<>>
    ELSE IF Len(list) = 1 THEN list[1]
    ELSE list[1] \o <<sep>> \o join(Tail(list), sep)

\* Python: s.rstrip(ch)
RECURSIVE rstrip(_, _)
rstrip(s, ch) ==
    IF s # <<>> /\ s[Len(s)] = ch THEN rstrip(SubSeq(s, 1, Len(s) - 1), ch) ELSE s

\* os.path.normpath on Windows: "/" becomes "\\", repeated separators
\* become one, a trailing separator goes unless it is the root's, and the
\* empty path becomes "."
Backslashed(s) == [i \in DOMAIN s |-> IF s[i] = FSL THEN BSL ELSE s[i]]

RECURSIVE Collapsed(_)
Collapsed(s) ==
    IF Len(s) < 2 THEN s
    ELSE IF s[1] = BSL /\ s[2] = BSL THEN Collapsed(Tail(s))
    ELSE <<s[1]>> \o Collapsed(Tail(s))

Untrailed(s) == IF Len(s) > 2 /\ s[Len(s)] = BSL THEN SubSeq(s, 1, Len(s) - 1) ELSE s

normpath(s) == IF s = <<>> THEN <<".">> ELSE Untrailed(Collapsed(Backslashed(s)))

\* str(Path(s)) on Windows: separators are made "\\", repeated and
\* trailing ones dropped, the case kept
WindowsPath(s) == Untrailed(Collapsed(Backslashed(s)))

\* line 32: the place the SDK is installed at when it is installed, as
\* str(Path("C:/Android/Sdk")) gives it, and as a user may have typed it
SdkHome == <<"C:", BSL, "Android", BSL, "Sdk">>
SdkHomeTyped == <<"C:", FSL, "Android", FSL, "Sdk", FSL>>
\* a directory that does not exist
StaleHome == <<"D:", BSL, "old-sdk">>
\* a PATH entry that has nothing to do with the SDK
Foreign == <<"C:", BSL, "Windows">>

\* lines 54-60
SdkSubdirs ==
    << <<"emulator">>,
       <<"platform-tools">>,
       <<"tools">>,
       <<"tools", FSL, "bin">>,
       <<"cmdline-tools", FSL, "latest", FSL, "bin">> >>

\* lines 55-59 and 63: str(base / sub)
RequiredPath(home, sub) == WindowsPath(home \o <<BSL>> \o sub)

\* the sub-directories that exist in an installed SDK, by their place in
\* SdkSubdirs
ConfigDirs == {1..5, {1, 2, 5}, {}}

\* the process environment and the disk: the two variables, whether the SDK
\* is installed at SdkHome, and which of its sub-directories exist
ConfigEnvs ==
    {e \in [ANDROID_HOME : {<<>>, SdkHome, SdkHomeTyped, StaleHome},
            ANDROID_SDK_ROOT : {<<>>, SdkHome},
            sdk : BOOLEAN,
            dirs : ConfigDirs] :
        ~e.sdk => e.dirs = {}}

\* how an entry for a required path may be written in the stored PATH
Styles == {"exact", "capitals", "slashes", "trailing", "spaced", "elsewhere"}

Styled(i, style) ==
    LET exact == RequiredPath(SdkHome, SdkSubdirs[i])
    IN  CASE style = "exact" -> exact
          [] style = "capitals" -> [k \in DOMAIN exact |-> UpperTok(exact[k])]
          [] style = "slashes" -> [k \in DOMAIN exact |-> IF exact[k] = BSL THEN FSL ELSE exact[k]]
          [] style = "trailing" -> exact \o <<BSL>>
          [] style = "spaced" -> <<SP>> \o exact \o <<SP>>
          [] style = "elsewhere" -> RequiredPath(StaleHome, SdkSubdirs[i])

\* which required paths the stored PATH has entries for
PresentSets == {{}, {1}, {1, 2}, 1..5} \cup {1..5 \ {i} : i \in 1..5}

\* a stored PATH: entries for the sub-directories in `present`, in one
\* style, alone or after a foreign entry and ended by a ";"
StoredPath(present, style, framed) ==
    LET sel == SelectSeq(<<1, 2, 3, 4, 5>>, LAMBDA i : i \in present)
        own == [k \in 1..Len(sel) |-> Styled(sel[k], style)]
    IN  IF framed THEN join(<<Foreign>> \o own, SEMI) \o <<SEMI>>
        ELSE join(own, SEMI)

StoredPaths ==
    {StoredPath(present, style, framed) :
        present \in PresentSets, style \in Styles, framed \in BOOLEAN}

\* the user environment store before the run
Stores == [Path : StoredPaths, ANDROID_HOME : {<<>>, StaleHome}]

\* Path(s).exists(): the file system does not tell case apart
DirExists(e, s) == e.sdk /\ lower(WindowsPath(s)) = lower(SdkHome)

\* lines 23-45: whether the SDK is found, and self.android_home afterwards
detect_android_sdk(e, home) ==
    IF home # <<>> /\ DirExists(e, home) THEN [found |-> TRUE, home |-> home]
    ELSE IF e.sdk THEN [found |-> TRUE, home |-> SdkHome]
    ELSE [found |-> FALSE, home |-> home]

\* lines 47-64
get_required_paths(e, home) ==
    IF home = <<>> THEN <<>>
    ELSE LET sel == SelectSeq(<<1, 2, 3, 4, 5>>, LAMBDA i : i \in e.dirs)
         IN  [k \in 1..Len(sel) |-> RequiredPath(home, SdkSubdirs[sel[k]])]

\* how a read or a write of the registry can end
RegistryOutcomes == {"ok", "error"}

\* lines 66-73: the stored PATH, or "" when the registry raises
get_current_user_path(st, outcome) == IF outcome = "ok" THEN st.Path ELSE <<>>

\* line 78
current_paths(path) ==
    LET parts == split(path, SEMI)
        stripped == [i \in DOMAIN parts |-> Strip(parts[i])]
    IN  SelectSeq(stripped, LAMBDA x : x # <<>>)

\* lines 86-87
Found(required_path, paths) ==
    \E i \in DOMAIN paths : lower(normpath(paths[i])) = lower(normpath(required_path))

\* line 114 and 116
new_path_value(current, new_paths) ==
    IF current # <<>> THEN rstrip(current, SEMI) \o <<SEMI>> \o join(new_paths, SEMI)
    ELSE join(new_paths, SEMI)

\* what the user types at the prompt
Inputs == {<<"y">>, <<SP, "Y", SP>>, <<"n">>, <<"y", "e", "s">>, <<>>}

\* everything the configurator does not touch
nonConfigVars == <<emulator_serial, issues, pollerVars, mainVars, auditVars, diagVars>>

\* lines 224-225
DetectSdk ==
    /\ cpc = "main"
    /\ LET d == detect_android_sdk(cenv, android_home)
       IN  /\ android_home' = d.home
           /\ IF d.found
              THEN cpc' = "android_home" /\ run_ret' = run_ret
              ELSE cpc' = "return" /\ run_ret' = "False"
    /\ UNCHANGED <<cenv, store, store0, required_paths, missing_paths, existing_paths,
                   current_path, response, added, config_exit, nonConfigVars>>

\* line 228, with lines 184-213: ANDROID_HOME is written to the store when
\* the process does not have it
CheckAndroidHome ==
    /\ cpc = "android_home"
    /\ IF cenv.ANDROID_HOME # <<>> \/ android_home = <<>>
       THEN store' = store
       ELSE \E w \in RegistryOutcomes :
               store' = IF w = "ok" THEN [store EXCEPT !.ANDROID_HOME = android_home]
                        ELSE store
    /\ cpc' = "required"
    /\ UNCHANGED <<cenv, store0, android_home, required_paths, missing_paths,
                   existing_paths, current_path, response, added, run_ret, config_exit,
                   nonConfigVars>>

\* lines 231-237
GetRequiredPaths ==
    /\ cpc = "required"
    /\ required_paths' = get_required_paths(cenv, android_home)
    /\ IF required_paths' = <<>>
       THEN cpc' = "return" /\ run_ret' = "False"
       ELSE cpc' = "check" /\ run_ret' = run_ret
    /\ UNCHANGED <<cenv, store, store0, android_home, missing_paths, existing_paths,
                   current_path, response, added, config_exit, nonConfigVars>>

\* line 240, with lines 75-96
CheckPaths ==
    /\ cpc = "check"
    /\ \E r \in RegistryOutcomes :
          current_path' = get_current_user_path(store, r)
    /\ LET paths == current_paths(current_path')
       IN  /\ existing_paths' =
                existing_paths \o SelectSeq(required_paths, LAMBDA p : Found(p, paths))
           /\ missing_paths' =
                missing_paths \o SelectSeq(required_paths, LAMBDA p : ~Found(p, paths))
    /\ cpc' = IF Len(missing_paths') = 0 THEN "verify" ELSE "prompt"
    /\ UNCHANGED <<cenv, store, store0, android_home, required_paths, response, added,
                   run_ret, config_exit, nonConfigVars>>

\* lines 244-251
Prompt ==
    /\ cpc = "prompt"
    /\ \E typed \in Inputs : response' = lower(Strip(typed))
    /\ IF response' = <<"y">>
       THEN cpc' = "add" /\ run_ret' = run_ret
       ELSE cpc' = "return" /\ run_ret' = "False"
    /\ UNCHANGED <<cenv, store, store0, android_home, required_paths, missing_paths,
                   existing_paths, current_path, added, config_exit, nonConfigVars>>

\* line 248, with lines 98-140: the PATH is read again, the new value
\* written and the change broadcast; what add_paths_to_user_path returns
\* is not looked at
AddPaths ==
    /\ cpc = "add"
    /\ \E r \in RegistryOutcomes, w \in RegistryOutcomes, broadcast \in {"ok", "raised"} :
          LET current == get_current_user_path(store, r)
          IN  IF w = "ok"
              THEN /\ store' = [store EXCEPT !.Path = new_path_value(current, missing_paths)]
                   /\ added' = IF broadcast = "ok" THEN "True" ELSE "False"
              ELSE /\ store' = store
                   /\ added' = "False"
    /\ cpc' = "verify"
    /\ UNCHANGED <<cenv, store0, android_home, required_paths, missing_paths,
                   existing_paths, current_path, response, run_ret, config_exit,
                   nonConfigVars>>

\* lines 254-264
VerifyCommands ==
    /\ cpc = "verify"
    /\ run_ret' = "True"
    /\ cpc' = "return"
    /\ UNCHANGED <<cenv, store, store0, android_home, required_paths, missing_paths,
                   existing_paths, current_path, response, added, config_exit,
                   nonConfigVars>>

\* lines 272-274
ConfigExit ==
    /\ cpc = "return"
    /\ config_exit' = IF run_ret = "True" THEN "0" ELSE "1"
    /\ cpc' = "exited"
    /\ UNCHANGED <<cenv, store, store0, android_home, required_paths, missing_paths,
                   existing_paths, current_path, response, added, run_ret, nonConfigVars>>

\* line 271: CordovaPathSetup() on Windows, in some environment
ConfigInit ==
    /\ MainFresh("idle", <<>>)
    /\ AuditFresh("idle", BareEnviron)
    /\ DiagFresh("idle", "idle")
    /\ emulator_serial = None
    /\ issues = <<>>
    /\ PollerIdle
    /\ \E e \in ConfigEnvs, st \in Stores : ConfigFresh("main", e, st)

ConfigNext ==
    \/ DetectSdk
    \/ CheckAndroidHome
    \/ GetRequiredPaths
    \/ CheckPaths
    \/ Prompt
    \/ AddPaths
    \/ VerifyCommands
    \/ ConfigExit

ConfigSpec == ConfigInit /\ [][ConfigNext]_vars

----------------------------------------------------------------------------
(* Properties of the PATH configurator *)

\* the directory names of a path, case folded
FoldedNames(path) ==
    LET names == SelectSeq(path, LAMBDA t : t \notin {BSL, FSL})
    IN  [i \in DOMAIN names |-> LowerTok(names[i])]

\* two paths that are equal after normalisation and case folding
SameDir(a, b) == FoldedNames(a) = FoldedNames(b)

InList(x, list) == \E i \in DOMAIN list : list[i] = x

\* the entries of a PATH value
EntriesOf(path) == SelectSeq(split(path, SEMI), LAMBDA x : x # <<>>)

\* x has an entry in the PATH value
OnPath(x, path) ==
    \E i \in DOMAIN EntriesOf(path) : SameDir(Strip(EntriesOf(path)[i]), x)

\* check_paths has run: it put every required path on one of the lists
CheckedPaths == existing_paths # <<>> \/ missing_paths # <<>>

\* the required paths with no entry in the PATH that check_paths read
Absent == SelectSeq(required_paths, LAMBDA x : ~OnPath(x, current_path))

\* C22: after check_paths has run once, existing_paths and missing_paths
\* partition required_paths: every required path is on exactly one of the
\* lists, on missing_paths exactly when no entry of the user PATH read by
\* check_paths equals it after normalisation and case folding; with five
\* required paths and exactly one absent, missing_paths holds that one and
\* existing_paths the other four.
C22_Partition ==
    CheckedPaths =>
        /\ Len(existing_paths) + Len(missing_paths) = Len(required_paths)
        /\ \A i \in DOMAIN required_paths :
              /\ InList(required_paths[i], existing_paths)
                    # InList(required_paths[i], missing_paths)
              /\ InList(required_paths[i], missing_paths)
                    <=> ~OnPath(required_paths[i], current_path)
        /\ (Len(required_paths) = 5 /\ Len(Absent) = 1) =>
              /\ missing_paths = Absent
              /\ Len(existing_paths) = 4

\* five required paths, four of them on the PATH in capitals after a
\* foreign entry
C22_Witness ==
    /\ Len(required_paths) = 5
    /\ Len(missing_paths) = 1
    /\ Len(existing_paths) = 4
    /\ current_path # <<>>
    /\ current_path[1] = "C:"
    /\ \E k \in DOMAIN current_path : current_path[k] = "SDK"
    /\ \E k \in DOMAIN current_path : current_path[k] = "Windows"

\* C23: the configurator writes to the user environment store only after
\* the user has answered 'y' at the prompt; otherwise the store, PATH and
\* ANDROID_HOME, is as it was before the run.
C23_WritesOnlyAfterYes == store # store0 => response = <<"y">>

\* C25: whenever the configurator writes the user PATH, the written value
\* has every entry of the previous PATH in its order, followed by exactly
\* the missing required paths, whatever reading the PATH gave.
C25_PathAugmented ==
    [][store'.Path # store.Path =>
          EntriesOf(store'.Path) = EntriesOf(store.Path) \o missing_paths]_vars

\* C26: the configurator exits with status 0 only if at the end every
\* required path is on the user PATH, already or newly written; when the
\* write of the PATH fails it exits with status 1.
C26_SuccessMeansPathsPresent ==
    /\ config_exit = "0" =>
          \A i \in DOMAIN required_paths : OnPath(required_paths[i], store.Path)
    /\ (cpc = "exited" /\ response = <<"y">> /\ store.Path = store0.Path) =>
          config_exit = "1"

====
